---- MODULE Spec2Model ----
(***************************************************************************)
(* Kamband level generation and tactical cover, as a state machine.        *)
(*                                                                         *)
(* The grid is the game's cave_feat / cave_info / cave_cover arrays on a   *)
(* scaled-down map.  The cover engine (cover.c) and the level director     *)
(* (generate.c) are translated operation by operation.                     *)
(***************************************************************************)
EXTENDS Integers, Sequences, FiniteSets, TLC

(***************************************************************************)
(* Bounds of the model (the game uses a 66 x 198 grid).                    *)
(***************************************************************************)
RoomRad == 1          \* largest half-extent a plain room draws (4, 3, 11)
MaxCalls == 2         \* calls of the cover engine in one behaviour
MaxAttempts == 2      \* attempts of generate_cave's retry loop
MaxVisits == 2        \* visits to the same seeded level

(* The block grid of the room map, sized so that a plain room with its     *)
(* outer wall fits the blocks room_build reserves for it and leaves rock   *)
(* for corridors, as the 11 x 11 blocks of the game do for its rooms.      *)
BLOCK_HGT == 2 * RoomRad + 4
BLOCK_WID == RoomRad + 2
DUNGEON_HGT == 2 * BLOCK_HGT
DUNGEON_WID == 7 * BLOCK_WID
MAX_ROOMS_ROW == DUNGEON_HGT \div BLOCK_HGT
MAX_ROOMS_COL == DUNGEON_WID \div BLOCK_WID

(* defines.h *)
MAX_DEPTH == 128

(***************************************************************************)
(* Feature identifiers (defines.h), in the numerically ordered bands the    *)
(* generator compares against: floor-like features below the doors, doors   *)
(* DOOR_HEAD..DOOR_TAIL, wall-like from MAGMA, granite-or-harder from       *)
(* WALL_EXTRA, permanent rock from PERM_EXTRA.  A vein with treasure is the *)
(* vein's id plus 4.                                                        *)
(***************************************************************************)
FEAT ==
  [ NONE |-> 0, FLOOR |-> 1, INVIS |-> 2, GLYPH |-> 3, OPEN |-> 4,
    BROKEN |-> 5, LESS |-> 6, MORE |-> 7, SHAFT |-> 8, DREAM_EXIT |-> 9,
    UNSEEN |-> 10, FOG |-> 11, FOG_DENSE |-> 12, SMOKE |-> 13,
    CHAOS_FOG |-> 14, TREES |-> 15, FALLEN_TREE |-> 16, BOULDER |-> 17,
    CRATE |-> 18, BARREL |-> 19, STONE_PILLAR |-> 20, SHRUB |-> 21,
    TALL_GRASS |-> 22, REEDS |-> 23, GRASS |-> 24, SHAL_WATER |-> 25,
    DEEP_WATER |-> 26, SHAL_LAVA |-> 27, DEEP_LAVA |-> 28, OIL |-> 29,
    ICE |-> 30, ACID |-> 31, MUD |-> 32, SWAMP |-> 33, ROCKY_HILL |-> 34,
    MOUNTAIN |-> 35, GLOWING_TILE |-> 36, FOUNTAIN |-> 37,
    CARTOGRAPHER |-> 38, HEROIC_REMAINS |-> 39, ALTAR_HEAD |-> 40,
    RUIN_DOOR |-> 41, QUEST_ENTER |-> 42, QUEST_EXIT |-> 43, SHOP_HEAD |-> 44,
    STORE_EXIT |-> 52,
    DOOR_HEAD |-> 64, DOOR_TAIL |-> 79, SECRET |-> 80, RUBBLE |-> 81,
    MAGMA |-> 82, QUARTZ |-> 83, MAGMA_K |-> 86, QUARTZ_K |-> 87,
    WALL_EXTRA |-> 88, WALL_INNER |-> 89, WALL_OUTER |-> 90,
    WALL_SOLID |-> 91, PERM_EXTRA |-> 92, PERM_INNER |-> 93,
    PERM_OUTER |-> 94, PERM_SOLID |-> 95 ]

(* Cover tiers (defines.h), ordered NONE < LIGHT < MEDIUM < HEAVY < TOTAL. *)
COVER == [ NONE |-> 0, LIGHT |-> 1, MEDIUM |-> 2, HEAVY |-> 3, TOTAL |-> 4 ]

(* Tunable cover constants (defines.h). *)
COVER_DURABILITY == [ TREE |-> 30, BOULDER |-> 50, WALL |-> 100 ]
COVER_ABSORB == [ LIGHT |-> 25, MEDIUM |-> 50, HEAVY |-> 75, TOTAL |-> 100 ]

(***************************************************************************)
(* Grid geometry.                                                          *)
(***************************************************************************)
Cells == (0 .. DUNGEON_HGT - 1) \X (0 .. DUNGEON_WID - 1)

in_bounds(y, x) ==
  y >= 0 /\ x >= 0 /\ y < DUNGEON_HGT /\ x < DUNGEON_WID

in_bounds_fully(y, x) ==
  y > 0 /\ x > 0 /\ y < DUNGEON_HGT - 1 /\ x < DUNGEON_WID - 1

Ring == { c \in Cells : ~in_bounds_fully(c[1], c[2]) }

Abs(n) == IF n < 0 THEN -n ELSE n

(* C integer division truncates toward zero. *)
TruncDiv(a, b) ==
  IF (a >= 0) = (b > 0) THEN Abs(a) \div Abs(b) ELSE -(Abs(a) \div Abs(b))

(* distance() of cave.c, the Chebyshev distance: the longer of the two    *)
(* legs.                                                                   *)
distance(y1, x1, y2, x2) ==
  LET dy == Abs(y1 - y2)
      dx == Abs(x1 - x2)
  IN  IF dy > dx THEN dy ELSE dx

(* Direction tables of tables.c, indexed from 0: S, N, E, W, SE, SW, NE, NW. *)
ddy_ddd == << 1, -1, 0, 0, 1, 1, -1, -1 >>
ddx_ddd == << 0, 0, 1, -1, 1, -1, 1, -1 >>

VARIABLES
  cave_feat,    \* [Cells -> feature id]
  cave_info,    \* [Cells -> set of flags among ROOM, ICKY, GLOW]
  cave_cover,   \* [Cells -> <<>> (NULL) or <<record>>]
  cov,          \* cover engine: number of calls made, outcome of the last
  p_ptr,        \* player: depth, inside_special, py, px
  rng,          \* Rand_quick and Rand_value
  gen,          \* generate_cave: position, attempt number, seed_dungeon
  dun,          \* the dun_data scratch record of the level being built
  prev,         \* the grid an earlier visit to the same level produced
  m_list,       \* monsters: race, position, hit points and guard record
  pat,          \* patrol engine: calls made, outcome of the last
  pursuit,      \* pursuit.c statics and the outcome of the last call
  rle,          \* repro_rle.c: its cave_info, buffer and buf_pos
  wild,         \* two neighbouring wilderness tiles and their seam
  tun,          \* the tunnel pass: what its walks stood on and pierced
  sect,         \* a sector builder or ensure_connectivity and its rectangle
  loops         \* a search loop of the generator: its counters and position

probeVars == << tun, sect, loops >>
extVars == << m_list, pat, pursuit, rle, wild, probeVars >>
vars ==
  << cave_feat, cave_info, cave_cover, cov, p_ptr, rng, gen, dun, prev,
     extVars >>
genVars == << p_ptr, rng, gen, dun, prev >>

InitProbeIdle ==
  /\ tun = [ pc |-> "idle" ]
  /\ sect = [ pc |-> "idle" ]
  /\ loops = [ pc |-> "idle" ]

(* No monsters; the patrol engine, the pursuit and the writer are idle. *)
InitExtIdle ==
  /\ m_list = << >>
  /\ pat = [ calls |-> 0 ]
  /\ pursuit = [ pursuit_r_idx |-> 0, pursuit_hp |-> 0, pursuit_maxhp |-> 0 ]
  /\ rle = [ buf_pos |-> 0 ]
  /\ wild = [ pc |-> "idle" ]
  /\ InitProbeIdle

(***************************************************************************)
(* cover.c.  The operators take and return the pair of arrays the cover    *)
(* engine works on: g.feat is cave_feat, g.cover is cave_cover, and        *)
(* g.broke records that a damage_cover call drove a durability to <= 0.    *)
(***************************************************************************)
Grid(feat, cover) == [ feat |-> feat, cover |-> cover, broke |-> FALSE ]

cave_set_feat(g, y, x, feat) == [ g EXCEPT !.feat[<<y, x>>] = feat ]

init_cover_system == [ c \in Cells |-> << >> ]

create_cover_at(g, y, x, cover_type, durability, feat) ==
  IF ~in_bounds(y, x) THEN g
  ELSE cave_set_feat(
         [ g EXCEPT !.cover[<<y, x>>] =
             << [ durability |-> durability, max_durability |-> durability,
                  cover_type |-> cover_type, terrain_feat |-> feat ] >> ],
         y, x, feat)

destroy_cover_keeps_record(g, y, x) ==
  IF ~in_bounds(y, x) THEN g
  ELSE cave_set_feat(g, y, x, FEAT.FLOOR)

destroy_cover(g, y, x) ==
  IF ~in_bounds(y, x) THEN g
  ELSE cave_set_feat([ g EXCEPT !.cover[<<y, x>>] = << >> ], y, x, FEAT.FLOOR)

get_cover_at(g, y, x) ==
  IF ~in_bounds(y, x) THEN COVER.NONE
  ELSE IF g.cover[<<y, x>>] # << >>
  THEN IF g.cover[<<y, x>>][1].durability > 0
       THEN g.cover[<<y, x>>][1].cover_type
       ELSE COVER.NONE
  ELSE LET feat == g.feat[<<y, x>>]
       IN  IF feat \in { FEAT.WALL_INNER, FEAT.WALL_OUTER, FEAT.WALL_SOLID,
                         FEAT.PERM_INNER, FEAT.PERM_OUTER, FEAT.PERM_SOLID,
                         FEAT.STONE_PILLAR }
           THEN COVER.HEAVY
           ELSE IF feat \in { FEAT.TREES, FEAT.BOULDER, FEAT.RUBBLE }
           THEN COVER.MEDIUM
           ELSE IF feat \in { FEAT.FALLEN_TREE, FEAT.CRATE, FEAT.TALL_GRASS,
                              FEAT.REEDS, FEAT.SHRUB, FEAT.FOG,
                              FEAT.FOG_DENSE, FEAT.SMOKE, FEAT.CHAOS_FOG,
                              FEAT.BARREL }
           THEN COVER.LIGHT
           ELSE COVER.NONE

(* The i-th grid of the attacker-to-target trace used by cover.c. *)
TraceY(ay, ty, i, dist) == ay + TruncDiv((ty - ay) * i, dist)
TraceX(ax, tx, i, dist) == ax + TruncDiv((tx - ax) * i, dist)

(* The loop of get_cover_vs_direction from step i on, best so far in b. *)
RECURSIVE cover_scan(_, _, _, _, _, _, _, _)
cover_scan(g, ty, tx, ay, ax, dist, i, b) ==
  IF i >= dist THEN b
  ELSE LET y == TraceY(ay, ty, i, dist)
           x == TraceX(ax, tx, i, dist)
       IN  IF ~in_bounds(y, x)
           THEN cover_scan(g, ty, tx, ay, ax, dist, i + 1, b)
           ELSE IF g.feat[<<y, x>>] \in { FEAT.FOG, FEAT.FOG_DENSE, FEAT.SMOKE }
           THEN cover_scan(g, ty, tx, ay, ax, dist, i + 1, b)
           ELSE LET cover == get_cover_at(g, y, x)
                    best == IF cover > b THEN cover ELSE b
                IN  IF best >= COVER.TOTAL THEN COVER.TOTAL
                    ELSE cover_scan(g, ty, tx, ay, ax, dist, i + 1, best)

get_cover_vs_direction(g, ty, tx, ay, ax) ==
  LET dist == distance(ay, ax, ty, tx)
      best_cover == cover_scan(g, ty, tx, ay, ax, dist, 1, COVER.NONE)
      target_cover == get_cover_at(g, ty, tx)
  IN  IF target_cover > best_cover /\ target_cover <= COVER.MEDIUM
      THEN target_cover
      ELSE best_cover

(* The set of directions 0..7 whose bit get_directional_cover sets. *)
get_directional_cover(g, y, x) ==
  { dir \in 0 .. 7 :
      LET ny == y + ddy_ddd[dir + 1]
          nx == x + ddx_ddd[dir + 1]
      IN  /\ in_bounds(ny, nx)
          /\ \/ g.feat[<<ny, nx>>] >= FEAT.WALL_EXTRA
             \/ g.feat[<<ny, nx>>] \in
                  { FEAT.TREES, FEAT.BOULDER, FEAT.STONE_PILLAR } }

(* The 8-direction code is_attack_blocked_by_cover derives; 8 = same grid. *)
attack_dir(ty, tx, ay, ax) ==
  LET dy == ay - ty
      dx == ax - tx
  IN  IF dy < 0 /\ dx < 0 THEN 7
      ELSE IF dy < 0 /\ dx = 0 THEN 0
      ELSE IF dy < 0 /\ dx > 0 THEN 1
      ELSE IF dy = 0 /\ dx > 0 THEN 2
      ELSE IF dy > 0 /\ dx > 0 THEN 3
      ELSE IF dy > 0 /\ dx = 0 THEN 4
      ELSE IF dy > 0 /\ dx < 0 THEN 5
      ELSE IF dy = 0 /\ dx < 0 THEN 6
      ELSE 8

is_attack_blocked_by_cover(g, ty, tx, ay, ax) ==
  LET dir == attack_dir(ty, tx, ay, ax)
  IN  /\ dir # 8
      /\ dir \in get_directional_cover(g, ty, tx)
      /\ get_cover_at(g, ty + ddy_ddd[dir + 1], tx + ddx_ddd[dir + 1])
           >= COVER.HEAVY

(* damage_cover; r is the value its rand_int(100) call returns if made. *)
RECURSIVE damage_cover(_, _, _, _, _)
damage_cover_no_destroy(g, y, x, damage, r) ==
  IF ~in_bounds(y, x) THEN g
  ELSE LET feat == g.feat[<<y, x>>]
       IN  IF feat = FEAT.BARREL
           THEN cave_set_feat(g, y, x, FEAT.FLOOR)
           ELSE IF g.cover[<<y, x>>] # << >>
           THEN [ g EXCEPT !.cover[<<y, x>>][1].durability = @ - damage ]
           ELSE g

damage_cover(g, y, x, damage, r) ==
  IF ~in_bounds(y, x) THEN g
  ELSE LET feat == g.feat[<<y, x>>]
       IN  IF feat = FEAT.BARREL
           THEN cave_set_feat(g, y, x, FEAT.FLOOR)
           ELSE IF g.cover[<<y, x>>] # << >>
           THEN LET h == [ g EXCEPT !.cover[<<y, x>>][1].durability =
                                      @ - damage ]
                IN  IF h.cover[<<y, x>>][1].durability <= 0
                    THEN [ destroy_cover(h, y, x) EXCEPT !.broke = TRUE ]
                    ELSE h
           ELSE LET t == IF feat = FEAT.TREES /\ damage > 20 /\ r < damage
                         THEN create_cover_at(
                                cave_set_feat(g, y, x, FEAT.FALLEN_TREE),
                                y, x, COVER.LIGHT,
                                TruncDiv(COVER_DURABILITY.TREE, 2),
                                FEAT.FALLEN_TREE)
                         ELSE g
                IN  IF feat = FEAT.CRATE
                    THEN damage_cover(
                           [ t EXCEPT !.cover[<<y, x>>] =
                               << [ durability |-> 20, max_durability |-> 20,
                                    cover_type |-> COVER.LIGHT,
                                    terrain_feat |-> FEAT.CRATE ] >> ],
                           y, x, damage, r)
                    ELSE t

(* The first step i in from..dist whose grid has at least the given cover; *)
(* dist + 1 when there is none.                                             *)
RECURSIVE first_cover_step(_, _, _, _, _, _, _, _)
first_cover_step(g, ay, ax, ty, tx, dist, cover, i) ==
  IF i > dist THEN i
  ELSE IF get_cover_at(g, TraceY(ay, ty, i, dist), TraceX(ax, tx, i, dist))
            >= cover
  THEN i
  ELSE first_cover_step(g, ay, ax, ty, tx, dist, cover, i + 1)

absorb_percent(cover) ==
  IF cover = COVER.LIGHT THEN COVER_ABSORB.LIGHT
  ELSE IF cover = COVER.MEDIUM THEN COVER_ABSORB.MEDIUM
  ELSE IF cover = COVER.HEAVY THEN COVER_ABSORB.HEAVY
  ELSE IF cover = COVER.TOTAL THEN COVER_ABSORB.TOTAL
  ELSE 0

miss_chance(cover) ==
  IF cover = COVER.LIGHT THEN 25
  ELSE IF cover = COVER.MEDIUM THEN 40
  ELSE IF cover = COVER.HEAVY THEN 60
  ELSE IF cover = COVER.TOTAL THEN 100
  ELSE 0

(* What attack_through_cover leaves behind: the grid, the return value     *)
(* (hit), *damage and *cover_damage_out.  r1 is the miss roll, r2 the roll *)
(* of the damage_cover call.                                               *)
Outcome(g, hit, damage, out, cover, blocked, cy, cx) ==
  [ g |-> g, hit |-> hit, damage |-> damage, cover_damage_out |-> out,
    cover |-> cover, blocked |-> blocked, cy |-> cy, cx |-> cx ]

(* attack_through_cover with the hit branch leaving *damage as it was. *)
attack_through_cover_full_hit(g, ay, ax, ty, tx, damage, r1, r2) ==
  LET cover == get_cover_vs_direction(g, ty, tx, ay, ax)
      dist == distance(ay, ax, ty, tx)
      i == first_cover_step(g, ay, ax, ty, tx, dist, cover, 1)
      cy == IF i <= dist THEN TraceY(ay, ty, i, dist) ELSE ty
      cx == IF i <= dist THEN TraceX(ax, tx, i, dist) ELSE tx
      cover_damage == TruncDiv(damage * absorb_percent(cover), 100)
  IN  IF cover = COVER.NONE
      THEN Outcome(g, TRUE, damage, 0, cover, FALSE, -1, -1)
      ELSE IF is_attack_blocked_by_cover(g, ty, tx, ay, ax)
      THEN Outcome(g, FALSE, 0, 0, cover, TRUE, -1, -1)
      ELSE IF r1 < miss_chance(cover)
      THEN Outcome(damage_cover(g, cy, cx, damage, r2),
                   FALSE, 0, damage, cover, FALSE, cy, cx)
      ELSE Outcome(damage_cover(g, cy, cx, cover_damage, r2),
                   damage > 0, damage, cover_damage, cover, FALSE, cy, cx)

attack_through_cover(g, ay, ax, ty, tx, damage, r1, r2) ==
  LET cover == get_cover_vs_direction(g, ty, tx, ay, ax)
      original_damage == damage
      dist == distance(ay, ax, ty, tx)
      i == first_cover_step(g, ay, ax, ty, tx, dist, cover, 1)
      cy == TraceY(ay, ty, i, dist)
      cx == TraceX(ax, tx, i, dist)
  IN  IF cover = COVER.NONE
      THEN Outcome(g, TRUE, damage, 0, cover, FALSE, -1, -1)
      ELSE IF is_attack_blocked_by_cover(g, ty, tx, ay, ax)
      THEN Outcome(g, FALSE, 0, 0, cover, TRUE, -1, -1)
      ELSE IF r1 < miss_chance(cover)
      THEN IF i <= dist
           THEN Outcome(damage_cover(g, cy, cx, original_damage, r2),
                        FALSE, 0, original_damage, cover, FALSE, cy, cx)
           ELSE IF get_cover_at(g, ty, tx) >= cover
           THEN Outcome(damage_cover(g, ty, tx, original_damage, r2),
                        FALSE, 0, original_damage, cover, FALSE, ty, tx)
           ELSE Outcome(g, FALSE, 0, 0, cover, FALSE, -1, -1)
      ELSE LET cover_damage ==
                 TruncDiv(original_damage * absorb_percent(cover), 100)
               left == original_damage - cover_damage
           IN  IF cover_damage > 0 /\ i <= dist
               THEN Outcome(damage_cover(g, cy, cx, cover_damage, r2),
                            left > 0, left, cover_damage, cover, FALSE, cy, cx)
               ELSE IF cover_damage > 0 /\ get_cover_at(g, ty, tx) >= cover
               THEN Outcome(damage_cover(g, ty, tx, cover_damage, r2),
                            left > 0, left, cover_damage, cover, FALSE, ty, tx)
               ELSE Outcome(g, left > 0, left, cover_damage, cover, FALSE,
                            -1, -1)

(***************************************************************************)
(* The cover engine driven by its callers: each action is one call of an   *)
(* exported function of cover.c on the current grid.                       *)
(***************************************************************************)
NoCall ==
  [ op |-> "none", y |-> -1, x |-> -1, broke |-> FALSE, cover |-> COVER.NONE,
    blocked |-> FALSE, hit |-> FALSE, original_damage |-> 0, damage |-> 0,
    cover_damage_out |-> 0 ]

(* The terrain the engine is exercised on: floor, with two grids of the    *)
(* middle row holding any of these features.                               *)
CoverTerrain ==
  { FEAT.FLOOR, FEAT.WALL_OUTER, FEAT.TREES, FEAT.CRATE, FEAT.BARREL,
    FEAT.FOG, FEAT.CHAOS_FOG }

CoverRow == 2
CoverSlots == { <<CoverRow, 2>>, <<CoverRow, 3>> }

CoverLayout(f) ==
  [ c \in Cells |-> IF c \in CoverSlots THEN f[c] ELSE FEAT.FLOOR ]

(* Arguments of the calls: the slots, the grid behind them and one grid    *)
(* outside the map; attackers stand at either end of the row or in a       *)
(* corner of the map.                                                      *)
CoverPoints == { <<CoverRow, x>> : x \in { -1, 2, 3, 4 } }
Attackers == { <<CoverRow, 0>>, <<CoverRow, DUNGEON_WID - 1>>, <<0, 0>> }
Damages == { 0, 25, 100 }
Rand100 == { 0, 30, 99 }
ToppleRolls == { 0, 99 }

(* The (cover_type, durability, feat) triples of populate_cover_features. *)
CoverKinds ==
  { << COVER.MEDIUM, COVER_DURABILITY.BOULDER, FEAT.BOULDER >>,
    << COVER.LIGHT, 20, FEAT.CRATE >>,
    << COVER.LIGHT, 20, FEAT.BARREL >>,
    << COVER.HEAVY, COVER_DURABILITY.WALL, FEAT.STONE_PILLAR >> }

NoDun ==
  [ level_bg |-> FEAT.WALL_EXTRA, destroyed |-> FALSE, lit_level |-> FALSE,
    room_map |-> {}, crowded |-> FALSE, cent |-> << >>, door |-> << >>,
    i |-> 0, y |-> 0, x |-> 0 ]

NoPlayer ==
  [ depth |-> 1, inside_special |-> "NONE", which_quest |-> 0,
    py |-> 0, px |-> 0, placed |-> FALSE, wild_x |-> 0,
    wild_y |-> 0, wilderness_depth |-> 0, which_town |-> 2,
    which_arena_layout |-> 3, store_vault |-> 3 ]

NoGen ==
  [ pc |-> "idle", num |-> 0, why |-> "", seed_dungeon |-> 0,
    visit |-> 0, allow_open_levels |-> FALSE,
    run |-> [ p |-> << >>, auto_scum |-> FALSE, seed_wild |-> 0,
              daytime |-> FALSE ] ]

(* The level director is not running. *)
InitGenIdle ==
  /\ cave_info = [ c \in Cells |-> {} ]
  /\ p_ptr = NoPlayer
  /\ rng = [ Rand_quick |-> FALSE, Rand_value |-> 0, Rand_state |-> 1 ]
  /\ gen = NoGen
  /\ dun = NoDun
  /\ prev = << >>

InitCover ==
  /\ cave_feat \in { CoverLayout(f) : f \in [ CoverSlots -> CoverTerrain ] }
  /\ cave_cover = init_cover_system
  /\ cov = [ calls |-> 0, last |-> NoCall ]
  /\ InitGenIdle
  /\ InitExtIdle

Returned(g, op, y, x) ==
  /\ cave_feat' = g.feat
  /\ cave_cover' = g.cover
  /\ cov' = [ calls |-> cov.calls + 1,
              last |-> [ NoCall EXCEPT !.op = op, !.y = y, !.x = x,
                                       !.broke = g.broke ] ]
  /\ UNCHANGED << cave_info, genVars, extVars >>

CallCreateCoverAt ==
  \E p \in CoverPoints, k \in CoverKinds :
    /\ cov.calls < MaxCalls
    /\ Returned(create_cover_at(Grid(cave_feat, cave_cover), p[1], p[2],
                                k[1], k[2], k[3]),
                "create_cover_at", p[1], p[2])

CallDestroyCover ==
  \E p \in CoverPoints :
    /\ cov.calls < MaxCalls
    /\ Returned(destroy_cover(Grid(cave_feat, cave_cover), p[1], p[2]),
                "destroy_cover", p[1], p[2])

CallDamageCover ==
  \E p \in CoverPoints, damage \in Damages, r \in ToppleRolls :
    /\ cov.calls < MaxCalls
    /\ Returned(damage_cover(Grid(cave_feat, cave_cover), p[1], p[2],
                             damage, r),
                "damage_cover", p[1], p[2])

CallAttackThroughCover ==
  \E a \in Attackers, t \in CoverPoints, damage \in Damages,
     r1 \in Rand100, r2 \in ToppleRolls :
    /\ cov.calls < MaxCalls
    /\ \E o \in { attack_through_cover(Grid(cave_feat, cave_cover),
                                         a[1], a[2], t[1], t[2], damage,
                                         r1, r2) } :
           /\ cave_feat' = o.g.feat
           /\ cave_cover' = o.g.cover
           /\ cov' = [ calls |-> cov.calls + 1,
                       last |-> [ op |-> "attack_through_cover",
                                  y |-> o.cy, x |-> o.cx,
                                  broke |-> o.g.broke, cover |-> o.cover,
                                  blocked |-> o.blocked, hit |-> o.hit,
                                  original_damage |-> damage,
                                  damage |-> o.damage,
                                  cover_damage_out |-> o.cover_damage_out ] ]
           /\ UNCHANGED << cave_info, genVars, extVars >>

NextCover ==
  \/ CallCreateCoverAt
  \/ CallDestroyCover
  \/ CallDamageCover
  \/ CallAttackThroughCover

SpecCover == InitCover /\ [][NextCover]_vars

(* The element of a one-element set: Only({ F(v) : v \in { e } }) is F(e)  *)
(* with e worked out before F is.                                          *)
Only(S) == CHOOSE v \in S : TRUE

(***************************************************************************)
(* z-rand.c.  Both generators are linear congruential streams: Rand_value  *)
(* is the "quick" stream that generate_cave seeds, Rand_state stands for   *)
(* the state of the "complex" stream.  A draw steps the stream in use and  *)
(* scales the new state onto the range asked for.                          *)
(***************************************************************************)
RandMod == 65537

LCRNG(X) == (X * 75 + 74) % RandMod

RandCur(r) == IF r.Rand_quick THEN r.Rand_value ELSE r.Rand_state

RandStep(r) ==
  IF r.Rand_quick
  THEN [ r EXCEPT !.Rand_value = LCRNG(@) ]
  ELSE [ r EXCEPT !.Rand_state = LCRNG(@) ]

RECURSIVE RandSkip(_, _)
RandSkip(r, k) ==
  IF k <= 0 THEN r
  ELSE IF k = 1 THEN RandStep(r)
  ELSE Only({ RandSkip(v, k - (k \div 2)) : v \in { RandSkip(r, k \div 2) } })

(* The k-th draw made from stream state r (k = 1 is the next draw): the    *)
(* stepped state scaled onto 0 .. m-1.                                      *)
rand_int(r, k, m) ==
  IF m <= 1 THEN 0 ELSE (RandCur(RandSkip(r, k)) * m) \div RandMod

randint(r, k, m) == 1 + rand_int(r, k, m)
rand_range(r, k, a, b) == a + rand_int(r, k, 1 + b - a)
rand_spread(r, k, a, d) == a + rand_int(r, k, 1 + d + d) - d
magik(r, k, p) == rand_int(r, k, 100) < p

(***************************************************************************)
(* Grid classifiers (defines.h).  Objects and monsters are not part of the *)
(* model, so a clean or naked grid is a plain floor grid that the player   *)
(* does not stand on.                                                      *)
(***************************************************************************)
cave_floor_bold(L, y, x) == L.feat[<<y, x>>] < FEAT.DOOR_HEAD
cave_perma_bold(L, y, x) == L.feat[<<y, x>>] >= FEAT.PERM_EXTRA
cave_valid_bold(L, y, x) == ~cave_perma_bold(L, y, x)
cave_clean_bold(L, y, x) == L.feat[<<y, x>>] = FEAT.FLOOR
cave_naked_bold(L, y, x) ==
  /\ L.feat[<<y, x>>] = FEAT.FLOOR
  /\ ~(L.p.placed /\ <<y, x>> = <<L.p.py, L.p.px>>)

SetFeat(L, c, f) == [ L EXCEPT !.feat[c] = f ]
AddInfo(L, c, flags) == [ L EXCEPT !.info[c] = @ \cup flags ]
Drawn(L, k) == [ L EXCEPT !.rng = RandSkip(@, k) ]

(***************************************************************************)
(* generate.c: options, room table and vault records.                      *)
(***************************************************************************)
dungeon_align == TRUE
allow_theme_vaults == FALSE
weirdness_is_rare == FALSE
auto_scum == TRUE

DUN_UNUSUAL == 200
DUN_DEST == 15
DUN_OPEN_FLOOR == 10
DUN_OPEN_WATER == 10
DUN_OPEN_CHAOS == 10
DUN_OPEN_MAZE == 10
DUN_OPEN_FOG == 10
DUN_TUN_RND == 10
DUN_TUN_CHG == 30
DUN_TUN_CON == 15
DUN_TUN_PEN == 25
DUN_TUN_JCT == 90

(* room[]: dy1, dy2, dx1, dx2 in blocks and the minimum level, by type. *)
room ==
  << << 0, 0, -1, 1, 1 >>,   << 0, 0, -1, 1, 1 >>,   << 0, 0, -1, 1, 3 >>,
     << 0, 0, -1, 1, 3 >>,   << 0, 0, -1, 1, 5 >>,   << 0, 0, -1, 1, 5 >>,
     << 0, 1, -1, 1, 5 >>,   << -1, 2, -2, 3, 10 >>, << -1, 2, -2, 3, 5 >>,
     << -1, 2, -2, 3, 40 >>, << -1, 3, -3, 3, 30 >>, << -2, 2, -2, 2, 1 >>,
     << -2, 2, -2, 2, 1 >>,  << -2, 2, -2, 2, 1 >>,  << 0, 0, 0, 0, 0 >>,
     << 0, 0, 0, 0, 0 >>,    << 0, 0, -1, 1, 10 >>,  << 0, 0, -1, 1, 10 >> >>

(* The room builders translated so far: plain rooms and lesser vaults. *)
RoomTypesBuilt == { 1, 7 }

(* v_info[]: the vault records of v_info.txt the model loads, one of each  *)
(* kind the director asks for: a lesser vault (7), a shop (10), an arena   *)
(* (11), a wilderness vault (13) and three quest levels (99): on rock, in  *)
(* fog (gen_info 2) and in the wilderness (gen_info 1).  "at" is where the *)
(* record's monster text has the player's '@' (<< 0, 0 >>: nowhere).       *)
v_info ==
  << [ typ |-> 7,
       text |-> << << "%", "%", "%", "%", "%" >>,
                   << "%", ".", ".", ".", "%" >>,
                   << "%", ".", "#", ".", "%" >>,
                   << "%", ".", ".", ".", "%" >>,
                   << "%", "%", "%", "%", "%" >> >>,
       at |-> << 0, 0 >> ],
     [ typ |-> 10,
       text |-> << << "X", "X", "X" >>,
                   << "X", "S", "X" >>,
                   << "X", ".", "X" >>,
                   << "X", "X", "X" >> >>,
       at |-> << 3, 2 >> ],
     [ typ |-> 11,
       text |-> << << "X", "X", "X", "X" >>,
                   << "X", ".", ".", "X" >>,
                   << "X", ".", ".", "X" >>,
                   << "X", "X", "X", "X" >> >>,
       at |-> << 2, 2 >> ],
     [ typ |-> 99,
       text |-> << << "%", "%", "%", "%" >>,
                   << "%", "<", ".", "%" >>,
                   << "%", "%", "%", "%" >> >>,
       gen_info |-> 0, at |-> << 2, 3 >> ],
     [ typ |-> 13,
       text |-> << << "Y", "Y", "Y" >>,
                   << "Y", "U", "." >>,
                   << "Y", "Y", "Y" >> >>,
       at |-> << 0, 0 >> ],
     [ typ |-> 99,
       text |-> << << ".", ".", "." >>,
                   << ".", "<", "." >> >>,
       gen_info |-> 2, at |-> << 1, 1 >> ],
     [ typ |-> 99,
       text |-> << << ".", "." >>,
                   << ".", "<" >> >>,
       gen_info |-> 1, at |-> << 1, 1 >> ] >>

MAX_V_IDX == Len(v_info)

VaultGlyph ==
  [ g \in { "%", "#", "X", ".", "<", ">", "+", ":", "S", "U", "Y" } |->
      CASE g = "%" -> FEAT.WALL_OUTER
        [] g = "#" -> FEAT.WALL_INNER
        [] g = "X" -> FEAT.PERM_INNER
        [] g = "<" -> FEAT.LESS
        [] g = ">" -> FEAT.MORE
        [] g = "+" -> FEAT.SECRET
        [] g = ":" -> FEAT.RUBBLE
        [] g = "S" -> FEAT.STORE_EXIT
        [] g = "U" -> FEAT.SHAFT
        [] g = "Y" -> FEAT.TREES
        [] OTHER -> FEAT.FLOOR ]

(***************************************************************************)
(* generate.c: room builders.  A room's half-extents are drawn from        *)
(* 1 .. RoomRad (the source draws 4, 3, 11 and 11 on its 11x11 blocks).    *)
(* Guards, monsters and objects are not part of the model, and the draws   *)
(* their placement makes are not taken.                                    *)
(***************************************************************************)
CENT_MAX == 1000
DOOR_MAX == 1000
WALL_MAX == 2000
TUNN_MAX == 9000

Rect(y1, y2, x1, x2) ==
  { c \in Cells : c[1] >= y1 /\ c[1] <= y2 /\ c[2] >= x1 /\ c[2] <= x2 }

build_type1(L, yval, xval) ==
  LET light == L.p.depth <= randint(L.rng, 1, 25)
      y1 == yval - randint(L.rng, 2, RoomRad)
      y2 == yval + randint(L.rng, 3, RoomRad)
      x1 == xval - randint(L.rng, 4, RoomRad)
      x2 == xval + randint(L.rng, 5, RoomRad)
      pillar == rand_int(L.rng, 6, 20) = 0
      ragged == ~pillar /\ rand_int(L.rng, 7, 50) = 0
      n == IF pillar THEN 7 ELSE 8
      Room == Rect(y1 - 1, y2 + 1, x1 - 1, x2 + 1)
      Inside == Rect(y1, y2, x1, x2)
      Pillars == { c \in Inside : (c[1] - y1) % 2 = 0 /\ (c[2] - x1) % 2 = 0 }
      Ragged ==
        { c \in Inside :
            \/ /\ c[2] \in { x1, x2 }
               /\ c[1] >= y1 + 2 /\ c[1] <= y2 - 2 /\ (c[1] - y1) % 2 = 0
            \/ /\ c[1] \in { y1, y2 }
               /\ c[2] >= x1 + 2 /\ c[2] <= x2 - 2 /\ (c[2] - x1) % 2 = 0 }
      feat ==
        [ c \in Cells |->
            IF c \notin Room THEN L.feat[c]
            ELSE IF c \notin Inside THEN FEAT.WALL_OUTER
            ELSE IF pillar /\ c \in Pillars THEN FEAT.WALL_INNER
            ELSE IF ragged /\ c \in Ragged THEN FEAT.WALL_INNER
            ELSE FEAT.FLOOR ]
      info ==
        [ c \in Cells |->
            IF c \in Room
            THEN L.info[c] \cup { "ROOM" }
                           \cup (IF light THEN { "GLOW" } ELSE {})
            ELSE L.info[c] ]
  IN  Drawn([ L EXCEPT !.feat = feat, !.info = info ], n)

(* build_vault: the record's text laid around (yval, xval).  Quick mode is  *)
(* switched off on entry and on again on exit whenever the dungeon is      *)
(* seeded.                                                                 *)
build_vault(L, yval, xval, v) ==
  LET hgt == Len(v.text)
      wid == Len(v.text[1])
      town_symb == v.typ \in { 10, 11, 12 }
      wild_symb == v.typ = 13
      y0 == yval - (hgt \div 2)
      x0 == xval - (wid \div 2)
      In(c) == c[1] >= y0 /\ c[1] < y0 + hgt /\ c[2] >= x0 /\ c[2] < x0 + wid
      datum(c) == v.text[c[1] - y0 + 1][c[2] - x0 + 1]
      Laid(c) == In(c) /\ datum(c) \notin { " ", "-" }
      feat ==
        [ c \in Cells |-> IF Laid(c) THEN VaultGlyph[datum(c)] ELSE L.feat[c] ]
      info ==
        [ c \in Cells |->
            IF Laid(c)
            THEN L.info[c] \cup { "ROOM" }
                   \cup (IF ~town_symb /\ ~wild_symb THEN { "ICKY" } ELSE {})
            ELSE L.info[c] ]
      start == v.at # << 0, 0 >> /\ (L.p.inside_special # "WILD" \/ L.hook)
  IN  [ L EXCEPT !.feat = feat, !.info = info,
                 !.p.py = IF start THEN y0 + v.at[1] - 1 ELSE @,
                 !.p.px = IF start THEN x0 + v.at[2] - 1 ELSE @,
                 !.p.placed = IF start THEN TRUE ELSE @,
                 !.rng.Rand_quick = IF L.seed # 0 THEN TRUE ELSE @ ]

(* The number of draws build_type7 (or a director) makes until it draws a  *)
(* record of the type it wants.                                            *)
RECURSIVE vault_pick(_, _, _)
vault_pick(r, k, typ) ==
  IF v_info[rand_int(r, k, MAX_V_IDX) + 1].typ = typ THEN k
  ELSE vault_pick(r, k + 1, typ)

build_type7(L, yval, xval) ==
  LET k == vault_pick(L.rng, 1, 7)
      v == v_info[rand_int(L.rng, k, MAX_V_IDX) + 1]
      n == IF L.p.depth <= 50 THEN k ELSE k + 1
  IN  build_vault(Drawn(L, n), yval, xval, v)

(* room_build: "refused" is the code's FALSE; "unmodelled" is a room type   *)
(* whose builder is not translated.                                        *)
room_build(L, y0, x0, typ) ==
  LET y1 == y0 + room[typ][1]
      y2 == y0 + room[typ][2]
      x1 == x0 + room[typ][3]
      x2 == x0 + room[typ][4]
      blocks == (y1 .. y2) \X (x1 .. x2)
      y == ((y1 + y2 + 1) * BLOCK_HGT) \div 2
      x == ((x1 + x2 + 1) * BLOCK_WID) \div 2
      refused ==
        \/ L.p.depth < room[typ][5]
        \/ L.dun.crowded /\ typ \in { 5, 6 }
        \/ y1 < 0 \/ y2 >= MAX_ROOMS_ROW
        \/ x1 < 0 \/ x2 >= MAX_ROOMS_COL
        \/ blocks \cap L.dun.room_map # {}
      B == IF typ = 1 THEN build_type1(L, y, x) ELSE build_type7(L, y, x)
  IN  IF refused THEN [ L |-> L, res |-> "refused" ]
      ELSE IF typ \notin RoomTypesBuilt THEN [ L |-> L, res |-> "unmodelled" ]
      ELSE [ L |-> [ B EXCEPT
                       !.dun.cent = IF Len(@) < CENT_MAX
                                    THEN Append(@, << y, x >>) ELSE @,
                       !.dun.room_map = @ \cup blocks,
                       !.dun.crowded = @ \/ typ \in { 5, 6 } ],
             res |-> "built" ]

(***************************************************************************)
(* cave_gen: the start of a level and the room loop.                       *)
(***************************************************************************)

(* The sector kind cave_gen assigns to a 2x2 square of blocks. *)
sect_type(depth, roll) ==
  IF roll < depth \div 2 THEN "CAVERN"
  ELSE IF roll < 10 THEN "PLAZA"
  ELSE IF roll < 20 THEN "DARK"
  ELSE IF roll < 40 + (depth \div 4) THEN "HILL"
  ELSE IF roll < 45 + (depth \div 5) THEN "PIT"
  ELSE IF roll < 50 + (depth \div 6) THEN "CLIFF"
  ELSE "RUINS"

(* The 2x2 squares of the sector map, in the order cave_gen visits them. *)
SectorSquares == ((MAX_ROOMS_ROW + 1) \div 2) * ((MAX_ROOMS_COL + 1) \div 2)

(* level_bg, lit_level and the number of draws of the open-level rolls. *)
cave_gen_bg(L) ==
  LET chance(c) == IF weirdness_is_rare THEN c \div 2 ELSE c
      r == L.rng
  IN  IF ~L.allow_open_levels
      THEN [ bg |-> FEAT.WALL_EXTRA, lit |-> FALSE, n |-> 0 ]
      ELSE IF magik(r, 1, chance(DUN_OPEN_FLOOR)) THEN [ bg |-> FEAT.FLOOR, lit |-> TRUE, n |-> 1 ]
      ELSE IF magik(r, 2, chance(DUN_OPEN_WATER))
      THEN [ bg |-> FEAT.SHAL_WATER, lit |-> TRUE, n |-> 2 ]
      ELSE IF magik(r, 3, chance(DUN_OPEN_CHAOS))
      THEN [ bg |-> FEAT.CHAOS_FOG, lit |-> FALSE, n |-> 3 ]
      ELSE IF magik(r, 4, chance(DUN_OPEN_MAZE)) THEN [ bg |-> FEAT.NONE, lit |-> TRUE, n |-> 4 ]
      ELSE IF magik(r, 5, chance(DUN_OPEN_FOG)) THEN [ bg |-> FEAT.FOG, lit |-> FALSE, n |-> 5 ]
      ELSE [ bg |-> FEAT.WALL_EXTRA, lit |-> FALSE, n |-> 5 ]

(* The maze-like fill of a level without a background: one draw per grid,  *)
(* row by row.                                                             *)
maze_bg(r, k, c) ==
  LET v == (c[2] + c[1]
            + randint(r, k + c[1] * DUNGEON_WID + c[2] + 1, 12)) % 12
  IN  IF v <= 8 THEN FEAT.FLOOR
      ELSE IF v = 9 THEN FEAT.WALL_EXTRA
      ELSE IF v = 10 THEN FEAT.QUARTZ
      ELSE FEAT.MAGMA

(* cave_gen up to the room loop: background, destroyed roll, sector map.   *)
(* Only ruins sectors are translated; a level that draws another kind of   *)
(* sector is "unmodelled".                                                 *)
cave_gen_init(L) ==
  Only({
    LET maze == IF b.bg = FEAT.NONE THEN DUNGEON_HGT * DUNGEON_WID ELSE 0
        dest == IF L.p.depth > 10 THEN 1 ELSE 0
        destroyed == /\ L.p.depth > 10
                     /\ rand_int(L.rng, b.n + maze + 1, DUN_DEST) = 0
        ruins == \A s \in 1 .. SectorSquares :
                   sect_type(L.p.depth,
                             rand_int(L.rng, b.n + maze + dest + s, 100))
                     = "RUINS"
    IN  [ L |-> [ Drawn(L, b.n + maze + dest + SectorSquares) EXCEPT
                    !.feat = [ c \in Cells |->
                                 IF b.bg = FEAT.NONE
                                 THEN maze_bg(L.rng, b.n, c) ELSE b.bg ],
                    !.dun = [ NoDun EXCEPT !.level_bg = b.bg,
                                           !.lit_level = b.lit,
                                           !.destroyed = destroyed ] ],
          res |-> IF ruins THEN "ok" ELSE "unmodelled" ]
    : b \in { cave_gen_bg(L) } })

(* The room types one pass of the room loop tries, in order. *)
VeryUnusualRooms ==
  << << 17, 5, 10 >>, << 18, 10, 15 >>, << 11, 20, 30 >>, << 10, 20, 40 >>,
     << 8, 20, 0 >>, << 7, 25, 0 >>, << 6, 50, 0 >>, << 5, 80, 0 >> >>

UnusualRooms == << << 4, 25, 0 >>, << 3, 50, 0 >>, << 2, 100, 0 >> >>

RECURSIVE room_types(_, _, _)
room_types(tab, k, depth) ==
  IF tab = << >> THEN << >>
  ELSE (IF k < Head(tab)[2] /\ depth >= Head(tab)[3]
        THEN << Head(tab)[1] >> ELSE << >>)
       \o room_types(Tail(tab), k, depth)

RECURSIVE room_try(_, _, _, _)
room_try(L, y, x, cand) ==
  IF cand = << >> THEN [ L |-> L, res |-> "refused" ]
  ELSE Only({ IF o.res = "refused" THEN room_try(L, y, x, Tail(cand)) ELSE o :
                o \in { room_build(L, y, x, Head(cand)) } })

(* One pass of the room loop. *)
room_attempt(L) ==
  LET y == rand_int(L.rng, 1, MAX_ROOMS_ROW)
      xr == rand_int(L.rng, 2, MAX_ROOMS_COL)
      x == IF ~dungeon_align THEN xr
           ELSE IF xr % 3 = 0 THEN xr + 1
           ELSE IF xr % 3 = 2 THEN xr - 1
           ELSE xr
      unusual == rand_int(L.rng, 3, DUN_UNUSUAL) < L.p.depth
      k == rand_int(L.rng, 4, 100)
      very == rand_int(L.rng, 5, DUN_UNUSUAL) < L.p.depth
      n == IF L.dun.destroyed THEN 2 ELSE IF unusual THEN 5 ELSE 3
      cand ==
        IF L.dun.destroyed THEN << 1 >>
        ELSE (IF unusual /\ very
              THEN room_types(VeryUnusualRooms, k, L.p.depth) ELSE << >>)
             \o (IF unusual
                 THEN room_types(UnusualRooms, k, L.p.depth) ELSE << >>)
             \o << 1 >>
  IN  room_try(Drawn(L, n), y, x, cand)

(***************************************************************************)
(* generate.c: doors and the two tunnelers.  WindMax and TunnMax stand for *)
(* the loop limits 20000 and 2000 of the source.                           *)
(***************************************************************************)
WindMax == 52
TunnMax == 60

place_random_door(L, c) ==
  LET tmp == rand_int(L.rng, 1, 1000)
  IN  IF tmp < 300 THEN Drawn(SetFeat(L, c, FEAT.OPEN), 1)
      ELSE IF tmp < 400 THEN Drawn(SetFeat(L, c, FEAT.BROKEN), 1)
      ELSE IF tmp < 600 THEN Drawn(SetFeat(L, c, FEAT.SECRET), 1)
      ELSE IF tmp < 900 THEN Drawn(SetFeat(L, c, FEAT.DOOR_HEAD), 1)
      ELSE IF tmp < 999
      THEN Drawn(SetFeat(L, c, FEAT.DOOR_HEAD + randint(L.rng, 2, 7)), 2)
      ELSE Drawn(SetFeat(L, c, FEAT.DOOR_HEAD + 8 + rand_int(L.rng, 2, 8)), 2)

correct_dir(r, y1, x1, y2, x2) ==
  LET rdir == IF y1 = y2 THEN 0 ELSE IF y1 < y2 THEN 1 ELSE -1
      cdir == IF x1 = x2 THEN 0 ELSE IF x1 < x2 THEN 1 ELSE -1
  IN  IF rdir # 0 /\ cdir # 0
      THEN IF rand_int(r, 1, 100) < 50
           THEN [ rdir |-> 0, cdir |-> cdir, r |-> RandSkip(r, 1) ]
           ELSE [ rdir |-> rdir, cdir |-> 0, r |-> RandSkip(r, 1) ]
      ELSE [ rdir |-> rdir, cdir |-> cdir, r |-> r ]

rand_dir(r) ==
  LET i == rand_int(r, 1, 4)
  IN  [ rdir |-> ddy_ddd[i + 1], cdir |-> ddx_ddd[i + 1], r |-> RandSkip(r, 1) ]

(* The tunn[] cells become floor; each wall[] cell, in the order of the     *)
(* list, becomes floor and, one time in four, a door.                      *)
pierce_wall(L, c) ==
  LET L1 == SetFeat(L, c, FEAT.FLOOR)
  IN  IF rand_int(L1.rng, 1, 100) < DUN_TUN_PEN
      THEN place_random_door(Drawn(L1, 1), c)
      ELSE Drawn(L1, 1)

RECURSIVE apply_walls(_, _, _, _)
apply_walls(L, wall, lo, hi) ==
  IF lo > hi THEN L
  ELSE IF lo = hi THEN pierce_wall(L, wall[lo])
  ELSE Only({ apply_walls(v, wall, ((lo + hi) \div 2) + 1, hi) :
                v \in { apply_walls(L, wall, lo, (lo + hi) \div 2) } })

apply_tunnel(L, tunn, wall) ==
  Only({ apply_walls(L1, wall, 1, Len(wall)) :
           L1 \in { [ L EXCEPT
                        !.feat = [ c \in Cells |->
                                     IF \E i \in 1 .. Len(tunn) : tunn[i] = c
                                     THEN FEAT.FLOOR ELSE @[c] ] ] } })

TunnelAvoids == { FEAT.PERM_SOLID, FEAT.PERM_OUTER, FEAT.WALL_SOLID }

(* build_tunnel: correct_dir followed by the roll for a random direction. *)
tunnel_dir(r, y1, x1, y2, x2) ==
  Only({ IF rand_int(cd.r, 1, 100) < DUN_TUN_RND
         THEN rand_dir(RandSkip(cd.r, 1))
         ELSE [ cd EXCEPT !.r = RandSkip(cd.r, 1) ] :
           cd \in { correct_dir(r, y1, x1, y2, x2) } })

RECURSIVE tunnel_in_bounds(_, _, _, _, _)
tunnel_in_bounds(D, y1, x1, y2, x2) ==
  IF in_bounds_fully(y1 + D.rdir, x1 + D.cdir) THEN D
  ELSE tunnel_in_bounds(tunnel_dir(D.r, y1, x1, y2, x2), y1, x1, y2, x2)

(* One pass of the main loop of build_tunnel.  T holds the locals, the      *)
(* lists and the features, which the walk changes as it goes; T.over is    *)
(* set when the loop has been left.  T.stood is a record of the walk, not  *)
(* a variable of the code: each grid that became the current position,     *)
(* with the feature it had at that moment.                                 *)
tunnel_step(info, T, row2, col2, start_row, start_col) ==
  IF T.over THEN T
  ELSE IF T.row1 = row2 /\ T.col1 = col2 THEN [ T EXCEPT !.over = TRUE ]
  ELSE IF T.count > TunnMax THEN [ T EXCEPT !.over = TRUE ]
  ELSE
    Only({
      LET tmp == << T.row1 + D.rdir, T.col1 + D.cdir >>
          nxt == << T.row1 + 2 * D.rdir, T.col1 + 2 * D.cdir >>
          f == T.feat[tmp]
          T1 == [ T EXCEPT !.count = @ + 1, !.row_dir = D.rdir,
                           !.col_dir = D.cdir, !.r = D.r ]
          Here == [ T EXCEPT !.count = @ + 1, !.row_dir = D.rdir,
                             !.col_dir = D.cdir, !.r = D.r,
                             !.row1 = @ + D.rdir, !.col1 = @ + D.cdir,
                             !.stood = @ \cup { << tmp, f >> } ]
          far == \/ Abs(T.row1 + D.rdir - start_row) > 10
                 \/ Abs(T.col1 + D.cdir - start_col) > 10
      IN  IF f \in TunnelAvoids THEN T1
          ELSE IF f = FEAT.WALL_OUTER
          THEN IF T.feat[nxt] \in TunnelAvoids \cup { FEAT.WALL_OUTER }
               THEN T1
               ELSE [ Here EXCEPT
                        !.wall = IF Len(@) < WALL_MAX
                                 THEN Append(@, tmp) ELSE @,
                        !.feat = [ c \in Cells |->
                                     IF /\ Abs(c[1] - T.row1 - D.rdir) <= 1
                                        /\ Abs(c[2] - T.col1 - D.cdir) <= 1
                                        /\ @[c] = FEAT.WALL_OUTER
                                     THEN FEAT.WALL_SOLID ELSE @[c] ] ]
          ELSE IF "ROOM" \in info[tmp] THEN Here
          ELSE IF f >= FEAT.WALL_EXTRA
          THEN [ Here EXCEPT
                   !.tunn = IF Len(@) < TUNN_MAX THEN Append(@, tmp) ELSE @,
                   !.door_flag = FALSE ]
          ELSE [ Here EXCEPT
                   !.door = IF ~T.door_flag /\ Len(@) < DOOR_MAX
                            THEN Append(@, tmp) ELSE @,
                   !.door_flag = TRUE,
                   !.r = RandSkip(@, 1),
                   !.over = rand_int(D.r, 1, 100) >= DUN_TUN_CON /\ far ]
      : D \in { tunnel_in_bounds(
                  IF rand_int(T.r, 1, 100) < DUN_TUN_CHG
                  THEN tunnel_dir(RandSkip(T.r, 1), T.row1, T.col1,
                                  row2, col2)
                  ELSE [ rdir |-> T.row_dir, cdir |-> T.col_dir,
                         r |-> RandSkip(T.r, 1) ],
                  T.row1, T.col1, row2, col2) } })

(* n passes of the loop, the first half before the second. *)
RECURSIVE tunnel_walk(_, _, _, _, _, _, _)
tunnel_walk(info, T, row2, col2, start_row, start_col, n) ==
  IF n <= 1 THEN tunnel_step(info, T, row2, col2, start_row, start_col)
  ELSE Only({ tunnel_walk(info, v, row2, col2, start_row, start_col,
                          n - (n \div 2)) :
                v \in { tunnel_walk(info, T, row2, col2, start_row,
                                    start_col, n \div 2) } })

(* build_tunnel up to the end of its main loop. *)
tunnel_run(L, row1, col1, row2, col2) ==
  Only({ tunnel_walk(L.info,
                     [ row1 |-> row1, col1 |-> col1,
                       row_dir |-> cd.rdir, col_dir |-> cd.cdir,
                       count |-> 0, tunn |-> << >>, wall |-> << >>,
                       door |-> L.dun.door, door_flag |-> FALSE,
                       r |-> cd.r, feat |-> L.feat, over |-> FALSE,
                       stood |-> {} ],
                     row2, col2, row1, col1, TunnMax + 2) :
           cd \in { correct_dir(L.rng, row1, col1, row2, col2) } })

(* build_tunnel, with the walk it made: o.L is the level it leaves, o.T    *)
(* the locals at the end of its main loop.                                 *)
straight_call(L, row1, col1, row2, col2) ==
  Only({ [ L |-> apply_tunnel([ L EXCEPT !.feat = T.feat, !.rng = T.r,
                                         !.dun.door = T.door ],
                              T.tunn, T.wall),
           W |-> << >>, T |-> << T >> ] :
           T \in { tunnel_run(L, row1, col1, row2, col2) } })

build_tunnel(L, row1, col1, row2, col2) ==
  straight_call(L, row1, col1, row2, col2).L

(* One pass of the walk of build_tunnel_winding.  The walker moves first    *)
(* and looks at the grid it is on afterwards; the features do not change   *)
(* until the walk is over.  W.stood records the walk as T.stood does.      *)
winding_step(L, W, row2, col2) ==
  IF (W.y = row2 /\ W.x = col2) \/ W.loop >= WindMax THEN W
  ELSE
    LET toward == rand_int(W.r, 1, 100) < 60
        ty == IF W.y < row2 THEN 1 ELSE IF W.y > row2 THEN -1 ELSE 0
        tx == IF W.x < col2 THEN 1 ELSE IF W.x > col2 THEN -1 ELSE 0
        diag == ty # 0 /\ tx # 0
        second == IF toward THEN rand_int(W.r, 2, 2) ELSE rand_int(W.r, 2, 4)
        dir_y == IF ~toward THEN ddy_ddd[second + 1]
                 ELSE IF diag /\ second # 0 THEN 0 ELSE ty
        dir_x == IF ~toward THEN ddx_ddd[second + 1]
                 ELSE IF diag /\ second = 0 THEN 0 ELSE tx
        n == IF toward /\ ~diag THEN 1 ELSE 2
        c == << W.y + dir_y, W.x + dir_x >>
        W1 == [ W EXCEPT !.loop = @ + 1, !.r = RandSkip(@, n) ]
        Here == [ W1 EXCEPT !.y = c[1], !.x = c[2],
                            !.stood = @ \cup { << c, L.feat[c] >> } ]
    IN  IF ~in_bounds(c[1], c[2]) THEN W1
        ELSE IF L.feat[c] \in TunnelAvoids THEN Here
        ELSE IF L.feat[c] = FEAT.WALL_OUTER
        THEN [ Here EXCEPT
                 !.wall = IF Len(@) < WALL_MAX THEN Append(@, c) ELSE @ ]
        ELSE IF "ROOM" \in L.info[c] THEN Here
        ELSE IF L.feat[c] >= FEAT.WALL_EXTRA
        THEN [ Here EXCEPT
                 !.tunn = IF Len(@) < TUNN_MAX THEN Append(@, c) ELSE @,
                 !.door_flag = FALSE ]
        ELSE [ Here EXCEPT
                 !.door = IF ~W.door_flag /\ Len(@) < DOOR_MAX
                          THEN Append(@, c) ELSE @,
                 !.door_flag = TRUE ]

RECURSIVE winding_walk(_, _, _, _, _)
winding_walk(L, W, row2, col2, n) ==
  IF n <= 1 THEN winding_step(L, W, row2, col2)
  ELSE Only({ winding_walk(L, v, row2, col2, n - (n \div 2)) :
                v \in { winding_walk(L, W, row2, col2, n \div 2) } })

(* build_tunnel_winding empties the door list along with its own lists, and *)
(* hands over to build_tunnel when the walk used up its iterations.         *)
winding_run(L, row1, col1, row2, col2) ==
  winding_walk(L,
               [ y |-> row1, x |-> col1, loop |-> 0, tunn |-> << >>,
                 wall |-> << >>, door |-> << >>, door_flag |-> FALSE,
                 r |-> L.rng, stood |-> {} ],
               row2, col2, WindMax)

(* build_tunnel_winding, with the walks made: o.W is its own walk, o.T the  *)
(* walk of build_tunnel when it was called, << >> when it was not.         *)
winding_call(L, row1, col1, row2, col2) ==
  Only({ IF W.loop >= WindMax
         THEN [ straight_call([ L EXCEPT !.rng = W.r, !.dun.door = W.door ],
                              row1, col1, row2, col2)
                  EXCEPT !.W = << W >> ]
         ELSE [ L |-> apply_tunnel([ L EXCEPT !.rng = W.r,
                                              !.dun.door = W.door ],
                                   W.tunn, W.wall),
                W |-> << W >>, T |-> << >> ] :
           W \in { winding_run(L, row1, col1, row2, col2) } })

build_tunnel_winding(L, row1, col1, row2, col2) ==
  winding_call(L, row1, col1, row2, col2).L

(* try_door and its helpers. *)
next_to_corr(L, y1, x1) ==
  Cardinality({ i \in 1 .. 4 :
                  LET c == << y1 + ddy_ddd[i], x1 + ddx_ddd[i] >>
                  IN  /\ L.feat[c] = FEAT.FLOOR
                      /\ "ROOM" \notin L.info[c] })

possible_doorway(L, y, x) ==
  /\ next_to_corr(L, y, x) >= 2
  /\ \/ /\ L.feat[<< y - 1, x >>] >= FEAT.MAGMA
        /\ L.feat[<< y + 1, x >>] >= FEAT.MAGMA
     \/ /\ L.feat[<< y, x - 1 >>] >= FEAT.MAGMA
        /\ L.feat[<< y, x + 1 >>] >= FEAT.MAGMA

try_door(L, y, x) ==
  IF ~in_bounds(y, x) THEN L
  ELSE IF L.feat[<< y, x >>] >= FEAT.MAGMA THEN L
  ELSE IF "ROOM" \in L.info[<< y, x >>] THEN L
  ELSE IF rand_int(L.rng, 1, 100) < DUN_TUN_JCT /\ possible_doorway(L, y, x)
  THEN place_random_door(Drawn(L, 1), << y, x >>)
  ELSE Drawn(L, 1)

(* The junction-door pass of cave_gen, over door[lo .. hi]. *)
junction_door(L, c) ==
  try_door(try_door(try_door(try_door(L, c[1], c[2] - 1), c[1], c[2] + 1),
                    c[1] - 1, c[2]),
           c[1] + 1, c[2])

RECURSIVE junction_doors(_, _, _)
junction_doors(L, lo, hi) ==
  IF lo > hi THEN L
  ELSE IF lo = hi THEN junction_door(L, L.dun.door[lo])
  ELSE Only({ junction_doors(v, ((lo + hi) \div 2) + 1, hi) :
                v \in { junction_doors(L, lo, (lo + hi) \div 2) } })

(***************************************************************************)
(* The level director, generate_cave, and cave_gen step by step.  gen.pc   *)
(* is the position in the code.                                            *)
(***************************************************************************)
DunRooms == 6              \* passes of the room loop (DUN_ROOMS, 400)

LevelNow ==
  [ feat |-> cave_feat, info |-> cave_info, cover |-> cave_cover,
    rng |-> rng, dun |-> dun, p |-> p_ptr, seed |-> gen.seed_dungeon,
    allow_open_levels |-> gen.allow_open_levels, run |-> gen.run,
    hook |-> FALSE, ok |-> TRUE ]

Commit(L, pc) ==
  /\ cave_feat' = L.feat
  /\ cave_info' = L.info
  /\ cave_cover' = L.cover
  /\ rng' = L.rng
  /\ dun' = L.dun
  /\ p_ptr' = L.p
  /\ gen' = [ gen EXCEPT !.pc = pc ]
  /\ UNCHANGED << cov, prev, extVars >>

(* generate_cave up to its retry loop: the cover records are cleared and   *)
(* a seeded dungeon starts the quick stream from seed + depth.             *)
GenerateCave ==
  /\ gen.pc = "start"
  /\ cave_cover' = init_cover_system
  /\ rng' = IF gen.seed_dungeon # 0
            THEN [ rng EXCEPT !.Rand_quick = TRUE,
                              !.Rand_value = (gen.seed_dungeon + p_ptr.depth)
                                               % RandMod ]
            ELSE rng
  /\ gen' = [ gen EXCEPT !.pc = "attempt", !.num = 0 ]
  /\ UNCHANGED << cave_feat, cave_info, cov, p_ptr, dun, prev, extVars >>

(* The top of the retry loop: flags, objects and monsters are wiped, the   *)
(* features and the cover records are not.                                 *)
Blank(L) ==
  [ L EXCEPT !.info = [ c \in Cells |-> {} ], !.p.placed = FALSE ]

Builds(kind) ==
  /\ gen.pc = "attempt"
  /\ kind = IF p_ptr.inside_special \in { "ARENA", "MAGIC_ARENA" }
            THEN "arena"
            ELSE IF p_ptr.inside_special = "QUEST" THEN "quest"
            ELSE IF p_ptr.inside_special = "STORE" THEN "store"
            ELSE IF p_ptr.inside_special = "WILD" THEN "terrain"
            ELSE IF p_ptr.depth = 0 THEN "town"
            ELSE "cave"

CaveGenStart ==
  /\ Builds("cave")
  /\ \E o \in { cave_gen_init(Blank(LevelNow)) } :
       /\ o.res = "ok"
       /\ Commit(o.L, "rooms")

RoomAttempt ==
  /\ gen.pc = "rooms"
  /\ dun.i < DunRooms
  /\ \E o \in { room_attempt(LevelNow) } :
       /\ o.res # "unmodelled"
       /\ Commit([ o.L EXCEPT !.dun.i = @ + 1 ], "rooms")

(* The boundary walls, the scrambling of the room order and the start of   *)
(* the tunnel pass.                                                        *)
RECURSIVE scramble(_, _, _)
scramble(cent, r, i) ==
  IF i > Len(cent) THEN cent
  ELSE LET pick1 == rand_int(r, 2 * i - 1, Len(cent)) + 1
           pick2 == rand_int(r, 2 * i, Len(cent)) + 1
       IN  scramble([ cent EXCEPT ![pick1] = cent[pick2],
                                  ![pick2] = cent[pick1] ], r, i + 1)

(* cave_gen without the loop over the right-hand boundary wall. *)
boundary_walls_no_right(L) ==
  [ L EXCEPT !.feat = [ c \in Cells |->
                          IF c \in Ring
                             /\ (c[2] < DUNGEON_WID - 1
                                 \/ c[1] \in { 0, DUNGEON_HGT - 1 })
                          THEN FEAT.PERM_SOLID ELSE @[c] ] ]

boundary_walls(L) ==
  [ L EXCEPT !.feat = [ c \in Cells |->
                          IF c \in Ring THEN FEAT.PERM_SOLID ELSE @[c] ] ]

BoundaryWalls ==
  /\ gen.pc = "rooms"
  /\ dun.i = DunRooms
  /\ \E L \in { boundary_walls(LevelNow) } :
       \E cent \in { scramble(L.dun.cent, L.rng, 1) } :
         Commit([ Drawn(L, 2 * Len(cent)) EXCEPT
                    !.dun.cent = cent,
                    !.dun.door = << >>,
                    !.dun.i = 0,
                    !.dun.y = IF cent = << >> THEN 0 ELSE cent[Len(cent)][1],
                    !.dun.x = IF cent = << >> THEN 0 ELSE cent[Len(cent)][2] ],
                "tunnels")

(* One pass of the loop that connects each room to the previous one. *)
ConnectRoom ==
  /\ gen.pc = "tunnels"
  /\ dun.i < Len(dun.cent)
  /\ \E L \in { LevelNow } :
       \E c \in { dun.cent[dun.i + 1] } :
         \E B \in { IF rand_int(L.rng, 1, 100) < 75
                    THEN build_tunnel_winding(Drawn(L, 1), c[1], c[2],
                                              dun.y, dun.x)
                    ELSE build_tunnel(Drawn(L, 1), c[1], c[2], dun.y, dun.x) } :
           Commit([ B EXCEPT !.dun.i = @ + 1, !.dun.y = c[1], !.dun.x = c[2] ],
                  "tunnels")

ConnectDone ==
  /\ gen.pc = "tunnels"
  /\ dun.i = Len(dun.cent)
  /\ Commit([ LevelNow EXCEPT !.dun.i = 0 ], "links")

(* One pass of the loop that links some rooms to random other rooms. *)
LinkRoom ==
  /\ gen.pc = "links"
  /\ dun.i < Len(dun.cent)
  /\ \E L \in { LevelNow } :
       \E c \in { dun.cent[dun.i + 1] } :
         \E B \in { IF rand_int(L.rng, 1, 100) < 40
                    THEN LET target == rand_int(L.rng, 2, Len(dun.cent))
                             t == dun.cent[target + 1]
                         IN  IF target # dun.i
                             THEN build_tunnel_winding(Drawn(L, 2), c[1], c[2],
                                                       t[1], t[2])
                             ELSE Drawn(L, 2)
                    ELSE Drawn(L, 1) } :
           Commit([ B EXCEPT !.dun.i = @ + 1 ], "links")

(* The junction doors, placed on levels with a granite background. *)
JunctionDoors ==
  /\ gen.pc = "links"
  /\ dun.i = Len(dun.cent)
  /\ \E L \in { LevelNow } :
       \E B \in { IF L.dun.level_bg = FEAT.WALL_EXTRA
                  THEN junction_doors(L, 1, Len(L.dun.door))
                  ELSE L } :
         Commit([ B EXCEPT !.dun.i = 0 ], "streamers")

(***************************************************************************)
(* generate.c: mineral streamers.                                          *)
(***************************************************************************)
DUN_STR_DEN == 5
DUN_STR_RNG == 2
DUN_STR_MAG == 3
DUN_STR_MC == 90
DUN_STR_QUA == 2
DUN_STR_QC == 40
DUN_STR_WLW == 1
DUN_STR_DWLW == 8

(* The density scale cave_gen applies on maps larger than 64 x 64. *)
area_scale == (DUNGEON_HGT * DUNGEON_WID + 64 * 64 - 1) \div (64 * 64)

(* "Pick a nearby grid": draws until the grid drawn is on the map. *)
RECURSIVE nearby_grid(_, _, _, _)
nearby_grid(r, y, x, d) ==
  IF in_bounds(rand_spread(r, 1, y, d), rand_spread(r, 2, x, d))
  THEN [ c |-> << rand_spread(r, 1, y, d), rand_spread(r, 2, x, d) >>,
         r |-> RandSkip(r, 2) ]
  ELSE nearby_grid(RandSkip(r, 2), y, x, d)

(* One grid of a streamer: granite of any kind becomes the vein, rooms and *)
(* vaults included.                                                        *)
streamer_grid(S, feat, chance) ==
  Only({ IF S.feat[p.c] < FEAT.WALL_EXTRA \/ S.feat[p.c] > FEAT.WALL_SOLID
         THEN [ S EXCEPT !.r = p.r ]
         ELSE [ S EXCEPT !.r = RandSkip(p.r, 1),
                         !.feat[p.c] = IF rand_int(p.r, 1, chance) = 0
                                       THEN feat + 4 ELSE feat ] :
           p \in { nearby_grid(S.r, S.y, S.x, DUN_STR_RNG) } })

RECURSIVE streamer_grids(_, _, _, _)
streamer_grids(S, feat, chance, i) ==
  IF i = 0 THEN S
  ELSE Only({ streamer_grids(v, feat, chance, i - 1) :
                v \in { streamer_grid(S, feat, chance) } })

(* One pass of the loop of build_streamer. *)
streamer_step(S, feat, chance, max_len) ==
  IF S.over THEN S
  ELSE IF S.len >= max_len THEN [ S EXCEPT !.over = TRUE ]
  ELSE Only({ [ v EXCEPT !.len = @ + 1,
                         !.y = @ + ddy_ddd[S.dir],
                         !.x = @ + ddx_ddd[S.dir],
                         !.over = ~in_bounds(S.y + ddy_ddd[S.dir],
                                             S.x + ddx_ddd[S.dir]) ] :
                v \in { streamer_grids(S, feat, chance, DUN_STR_DEN) } })

RECURSIVE streamer_walk(_, _, _, _, _)
streamer_walk(S, feat, chance, max_len, n) ==
  IF S.over THEN S
  ELSE IF n <= 1 THEN streamer_step(S, feat, chance, max_len)
  ELSE Only({ streamer_walk(v, feat, chance, max_len, n - (n \div 2)) :
                v \in { streamer_walk(S, feat, chance, max_len, n \div 2) } })

build_streamer(L, feat, chance, max_len) ==
  Only({ [ L EXCEPT !.feat = S.feat, !.rng = S.r ] :
           S \in { streamer_walk(
                     [ y |-> rand_range(L.rng, 1, 1, DUNGEON_HGT - 2),
                       x |-> rand_range(L.rng, 2, 1, DUNGEON_WID - 2),
                       dir |-> rand_int(L.rng, 3, 8) + 1,
                       len |-> 0, r |-> RandSkip(L.rng, 3),
                       feat |-> L.feat, over |-> FALSE ],
                     feat, chance, max_len, max_len + 1) } })

(* One pass of the magma loop or, after it, of the quartz loop. *)
BuildStreamer ==
  /\ gen.pc = "streamers"
  /\ dun.level_bg = FEAT.WALL_EXTRA
  /\ dun.i < (DUN_STR_MAG + DUN_STR_QUA) * area_scale
  /\ \E L \in { LevelNow } :
       \E B \in { IF dun.i < DUN_STR_MAG * area_scale
                  THEN build_streamer(Drawn(L, 1), FEAT.MAGMA, DUN_STR_MC,
                                      32 + randint(L.rng, 1, 32))
                  ELSE build_streamer(Drawn(L, 1), FEAT.QUARTZ, DUN_STR_QC,
                                      32 + randint(L.rng, 1, 32)) } :
         Commit([ B EXCEPT !.dun.i = @ + 1 ], "streamers")

(***************************************************************************)
(* generate.c: streams of trees, water, lava and the like.  The start of a *)
(* stream is spread StreamSpreadY and StreamSpreadX around the middle of   *)
(* the map (10 and 15 in the source), a pool is PoolMin + randint(PoolRnd) *)
(* across (5 + randint(10)), and a stream that is still on the map after   *)
(* StreamMax passes is outside the model (L.ok is lowered).                *)
(***************************************************************************)
StreamSpreadY == 1
StreamSpreadX == 2
PoolMin == 2
PoolRnd == 2
StreamMax == 40

(* What a stream or pool leaves alone. *)
stream_skips(S, info, c, killwall) ==
  \/ "ICKY" \in info[c]
  \/ S.feat[c] >= (IF killwall = 0 THEN FEAT.MAGMA ELSE FEAT.PERM_EXTRA)
  \/ S.feat[c] = FEAT.LESS
  \/ S.feat[c] = FEAT.MORE

stream_grid(S, info, feat, killwall) ==
  Only({ IF stream_skips(S, info, p.c, killwall)
         THEN [ S EXCEPT !.r = p.r ]
         ELSE [ S EXCEPT !.r = p.r, !.feat[p.c] = feat ] :
           p \in { nearby_grid(S.r, S.y, S.x, DUN_STR_WLW) } })

RECURSIVE stream_grids(_, _, _, _, _)
stream_grids(S, info, feat, killwall, i) ==
  IF i = 0 THEN S
  ELSE Only({ stream_grids(v, info, feat, killwall, i - 1) :
                v \in { stream_grid(S, info, feat, killwall) } })

(* One pass of the stream loop of build_streamer2. *)
stream_step(S, info, feat, killwall) ==
  IF S.over THEN S
  ELSE Only({ [ v EXCEPT
                  !.y = @ + ddy_ddd[S.dir],
                  !.x = @ + ddx_ddd[S.dir],
                  !.dir = IF randint(v.r, 1, 20) = 1
                          THEN rand_int(v.r, 2, 8) + 1 ELSE @,
                  !.r = IF randint(v.r, 1, 20) = 1
                        THEN RandSkip(@, 2) ELSE RandSkip(@, 1),
                  !.over = ~in_bounds(S.y + ddy_ddd[S.dir],
                                      S.x + ddx_ddd[S.dir]) ] :
                v \in { stream_grids(S, info, feat, killwall,
                                     DUN_STR_DWLW + 1) } })

RECURSIVE stream_walk(_, _, _, _, _)
stream_walk(S, info, feat, killwall, n) ==
  IF S.over THEN S
  ELSE IF n <= 1 THEN stream_step(S, info, feat, killwall)
  ELSE Only({ stream_walk(v, info, feat, killwall, n - (n \div 2)) :
                v \in { stream_walk(S, info, feat, killwall, n \div 2) } })

(* The pool of build_streamer2: the grids of the square at (y, x) that the *)
(* four corner tests keep.                                                 *)
pool_keeps(i, j, mid) ==
  IF i < mid
  THEN IF j < mid THEN i + j + 1 >= mid ELSE j <= mid + i
  ELSE IF j < mid THEN i <= mid + j ELSE i + j <= mid * 3 - 1

build_pool(L, y, x, feat, poolsize) ==
  [ L EXCEPT
      !.feat = [ c \in Cells |->
                   IF /\ c[1] >= y /\ c[1] < y + poolsize
                      /\ c[2] >= x /\ c[2] < x + poolsize
                      /\ pool_keeps(c[1] - y, c[2] - x, poolsize \div 2)
                      /\ "ICKY" \notin L.info[c]
                      /\ @[c] < FEAT.PERM_EXTRA
                      /\ @[c] # FEAT.LESS
                      /\ @[c] # FEAT.MORE
                   THEN feat ELSE @[c] ] ]

build_streamer2(L, feat, killwall) ==
  Only({ IF S.poolchance > 2
         THEN Only({ [ L EXCEPT !.feat = T.feat, !.rng = T.r,
                                !.ok = @ /\ T.over ] :
                       T \in { stream_walk(S, L.info, feat, killwall,
                                           StreamMax) } })
         ELSE IF feat \in { FEAT.DEEP_WATER, FEAT.DEEP_LAVA, FEAT.CHAOS_FOG }
         THEN build_pool(Drawn(L, 5), S.y, S.x, feat,
                         PoolMin + randint(L.rng, 5, PoolRnd))
         ELSE Drawn(L, 4) :
           S \in { [ poolchance |-> randint(L.rng, 1, 10),
                     y |-> rand_spread(L.rng, 2, DUNGEON_HGT \div 2,
                                       StreamSpreadY),
                     x |-> rand_spread(L.rng, 3, DUNGEON_WID \div 2,
                                       StreamSpreadX),
                     dir |-> rand_int(L.rng, 4, 8) + 1,
                     r |-> RandSkip(L.rng, 4),
                     feat |-> L.feat, over |-> FALSE ] } })

(* for (i = 0; i < randint(m); i++) build_streamer2(feat, killwall) *)
RECURSIVE stream_loop(_, _, _, _, _)
stream_loop(L, feat, killwall, m, i) ==
  IF i < randint(L.rng, 1, m)
  THEN Only({ stream_loop(v, feat, killwall, m, i + 1) :
                v \in { build_streamer2(Drawn(L, 1), feat, killwall) } })
  ELSE Drawn(L, 1)

stream_chaos(L) ==
  IF randint(L.rng, 1, 10) > 7
  THEN stream_loop(Drawn(L, 1), FEAT.CHAOS_FOG, 1, DUN_STR_QUA, 0)
  ELSE Drawn(L, 1)

stream_trees(L) ==
  IF L.p.depth > 2 THEN L
  ELSE IF randint(L.rng, 1, 20) > 15
  THEN stream_loop(Drawn(L, 1), FEAT.TREES, 1, DUN_STR_QUA, 0)
  ELSE Drawn(L, 1)

stream_liquid(L, shallow, deep, m1, m2) ==
  IF randint(L.rng, 1, 20) > 15
  THEN Only({ IF randint(v.rng, 1, 20) > 15
              THEN stream_loop(Drawn(v, 1), deep, 1, m2, 0)
              ELSE Drawn(v, 1) :
                v \in { stream_loop(Drawn(L, 1), shallow, 0, m1, 0) } })
  ELSE stream_chaos(Drawn(L, 1))

stream_water_or_lava(L) ==
  IF L.p.depth <= 19
  THEN stream_liquid(L, FEAT.SHAL_WATER, FEAT.DEEP_WATER,
                     DUN_STR_QUA - 1, DUN_STR_QUA)
  ELSE stream_liquid(L, FEAT.SHAL_LAVA, FEAT.DEEP_LAVA,
                     DUN_STR_QUA, DUN_STR_QUA - 1)

stream_one(L, feat) ==
  IF randint(L.rng, 1, 10) > 7
  THEN build_streamer2(Drawn(L, 1), feat, 0)
  ELSE Drawn(L, 1)

(* The end of the mineral streamers and the streams that follow them.  A   *)
(* level that is to be destroyed is outside the model.                     *)
BuildStreams ==
  /\ gen.pc = "streamers"
  /\ \/ dun.level_bg # FEAT.WALL_EXTRA
     \/ dun.i = (DUN_STR_MAG + DUN_STR_QUA) * area_scale
  /\ ~dun.destroyed
  /\ \E L1 \in { stream_water_or_lava(stream_trees(LevelNow)) } :
       \E L2 \in { stream_one(L1, FEAT.OIL) } :
         \E L3 \in { stream_one(L2, FEAT.ICE) } :
           \E L4 \in { stream_one(L3, FEAT.ACID) } :
             /\ L4.ok
             /\ Commit([ L4 EXCEPT !.dun.i = 0 ], "stairs")

(***************************************************************************)
(* generate.c: stairs and the player's starting grid.  cave_gen asks for   *)
(* rand_range(MoreLo, MoreHi) down and rand_range(LessLo, LessHi) up       *)
(* staircases (100 .. 120 and 40 .. 60 in the source); alloc_stairs draws  *)
(* StairTries grids (3000) before it asks for fewer walls.  A search that  *)
(* finds no grid with no walls asked for, which the source repeats for     *)
(* ever, is outside the model (L.ok is lowered).                           *)
(***************************************************************************)
MoreLo == 5
MoreHi == 6
LessLo == 4
LessHi == 5
StairTries == 200
SpotTries == 200

next_to_walls(feat, y, x) ==
  Cardinality({ k \in 1 .. 4 :
                  feat[<< y + ddy_ddd[k], x + ddx_ddd[k] >>]
                    >= FEAT.WALL_EXTRA })

(* The staircase alloc_stairs writes when asked for feat. *)
stairs_feat(p, feat) ==
  IF p.depth = 0
  THEN IF p.inside_special = "WILD" THEN FEAT.SHAFT ELSE FEAT.MORE
  ELSE IF p.inside_special = "QUEST" \/ p.depth >= MAX_DEPTH - 1
  THEN FEAT.LESS
  ELSE feat

(* One grid drawn by alloc_stairs.  A holds i, j, walls, the stream and the *)
(* features.                                                               *)
stairs_step(A, info, p, feat, num, force_room) ==
  IF A.over THEN A
  ELSE IF A.i >= num THEN [ A EXCEPT !.over = TRUE ]
  ELSE IF A.j >= StairTries
  THEN IF A.walls = 0 THEN [ A EXCEPT !.over = TRUE, !.ok = FALSE ]
       ELSE [ A EXCEPT !.walls = @ - 1, !.j = 0 ]
  ELSE
    LET y == rand_int(A.r, 1, DUNGEON_HGT)
        x == rand_int(A.r, 2, DUNGEON_WID)
    IN  IF /\ A.feat[<< y, x >>] = FEAT.FLOOR
           /\ force_room => "ROOM" \in info[<< y, x >>]
           /\ in_bounds_fully(y, x)
           /\ next_to_walls(A.feat, y, x) >= A.walls
        THEN [ A EXCEPT !.feat[<< y, x >>] = stairs_feat(p, feat),
                        !.r = RandSkip(@, 2),
                        !.i = @ + 1, !.j = 0,
                        !.walls = IF @ > 0 THEN @ - 1 ELSE @ ]
        ELSE [ A EXCEPT !.r = RandSkip(@, 2), !.j = @ + 1 ]

RECURSIVE stairs_walk(_, _, _, _, _, _, _)
stairs_walk(A, info, p, feat, num, force_room, n) ==
  IF A.over THEN A
  ELSE IF n <= 1 THEN stairs_step(A, info, p, feat, num, force_room)
  ELSE Only({ stairs_walk(v, info, p, feat, num, force_room,
                          n - (n \div 2)) :
                v \in { stairs_walk(A, info, p, feat, num, force_room,
                                    n \div 2) } })

alloc_stairs(L, feat, num, walls, force_room) ==
  IF L.p.inside_special = "DREAM" /\ feat = FEAT.LESS THEN L
  ELSE
    Only({ [ L EXCEPT !.feat = A.feat, !.rng = A.r, !.ok = @ /\ A.ok ] :
             A \in { stairs_walk(
                       [ i |-> 0, j |-> 0, walls |-> walls, r |-> L.rng,
                         feat |-> L.feat, over |-> FALSE, ok |-> TRUE ],
                       L.info, L.p,
                       IF L.p.inside_special = "DREAM" /\ feat = FEAT.MORE
                       THEN FEAT.DREAM_EXIT ELSE feat,
                       IF L.p.inside_special = "DREAM" /\ feat = FEAT.MORE
                          /\ num > 1
                       THEN 1 ELSE num,
                       force_room,
                       (num + walls + 1) * (StairTries + 2)) } })

(* new_player_spot.  No staircase is a naked grid, so the list of          *)
(* staircases to start on is empty and the player is put on a floor grid   *)
(* drawn at random.                                                        *)
spot_step(P, L) ==
  IF P.over THEN P
  ELSE IF P.j >= SpotTries THEN [ P EXCEPT !.over = TRUE, !.ok = FALSE ]
  ELSE
    LET y == rand_range(P.r, 1, 1, DUNGEON_HGT - 2)
        x == rand_range(P.r, 2, 1, DUNGEON_WID - 2)
    IN  IF cave_naked_bold(L, y, x) /\ "ICKY" \notin L.info[<< y, x >>]
        THEN [ P EXCEPT !.r = RandSkip(@, 2), !.y = y, !.x = x,
                        !.over = TRUE ]
        ELSE [ P EXCEPT !.r = RandSkip(@, 2), !.j = @ + 1 ]

RECURSIVE spot_walk(_, _, _)
spot_walk(P, L, n) ==
  IF P.over THEN P
  ELSE IF n <= 1 THEN spot_step(P, L)
  ELSE Only({ spot_walk(v, L, n - (n \div 2)) :
                v \in { spot_walk(P, L, n \div 2) } })

new_player_spot(L) ==
  Only({ [ L EXCEPT !.rng = P.r, !.ok = @ /\ P.ok,
                    !.p.py = P.y, !.p.px = P.x, !.p.placed = TRUE ] :
           P \in { spot_walk([ j |-> 0, y |-> 0, x |-> 0, r |-> L.rng,
                               over |-> FALSE, ok |-> TRUE ],
                             L, SpotTries + 1) } })

ForceRoom == dun.level_bg \in { FEAT.FOG, FEAT.CHAOS_FOG }

DownStairs ==
  /\ gen.pc = "stairs"
  /\ \E L \in { LevelNow } :
       \E B \in { alloc_stairs(Drawn(L, 1), FEAT.MORE,
                               rand_range(L.rng, 1, MoreLo, MoreHi), 3,
                               ForceRoom) } :
         /\ B.ok
         /\ Commit(B, "upstairs")

UpStairs ==
  /\ gen.pc = "upstairs"
  /\ \E L \in { LevelNow } :
       \E B \in { alloc_stairs(Drawn(L, 1), FEAT.LESS,
                               rand_range(L.rng, 1, LessLo, LessHi), 3,
                               ForceRoom) } :
         /\ B.ok
         /\ Commit(B, "player")

(* The player is placed, and the quick stream of a seeded dungeon is       *)
(* switched off for what follows.                                          *)
PlayerSpot ==
  /\ gen.pc = "player"
  /\ \E B \in { new_player_spot(LevelNow) } :
       /\ B.ok
       /\ Commit([ B EXCEPT !.rng.Rand_quick =
                              IF gen.seed_dungeon # 0 THEN FALSE ELSE @ ],
                 "population")

(***************************************************************************)
(* generate.c: what cave_gen scatters over the finished map.  Monsters and *)
(* objects are not part of the model: their placement makes a number of    *)
(* draws the model leaves open, and no grid is taken by them.  A placement *)
(* loop draws PlaceTries grids (1000); alloc_object, which the source lets *)
(* draw for ever, is outside the model when that many draws find no grid   *)
(* (L.ok is lowered).                                                      *)
(***************************************************************************)
PlaceTries == 200
MonsterDraws == 1

DUN_AMT_ALTAR == 3

(* What a placement loop of kind Q.kind asks of the grid it drew. *)
place_fits(S, info, p, kind, y, x) ==
  /\ S.feat[<< y, x >>] = FEAT.FLOOR
  /\ kind \in { "CORR", "ROOM", "BOTH", "tile", "remains" }
       => << y, x >> # << p.py, p.px >>
  /\ kind = "CORR" => "ROOM" \notin info[<< y, x >>]
  /\ kind \in { "ROOM", "fountain" } => "ROOM" \in info[<< y, x >>]
  /\ kind = "remains" => next_to_walls(S.feat, y, x) >= 3

(* One step of a placement loop: the loop test, which draws the bound anew *)
(* unless it is fixed, or one grid drawn for the current piece.            *)
scatter_step(S, info, p, Q) ==
  IF S.over THEN S
  ELSE IF ~S.trying
  THEN IF S.i < (IF Q.fixed THEN Q.lo
                 ELSE rand_range(S.r, 1, Q.lo, Q.hi))
       THEN [ S EXCEPT !.r = IF Q.fixed THEN @ ELSE RandSkip(@, 1),
                       !.trying = TRUE, !.d = 0 ]
       ELSE [ S EXCEPT !.r = IF Q.fixed THEN @ ELSE RandSkip(@, 1),
                       !.over = TRUE ]
  ELSE IF S.d >= PlaceTries
  THEN IF Q.limited THEN [ S EXCEPT !.i = @ + 1, !.trying = FALSE ]
       ELSE [ S EXCEPT !.over = TRUE, !.ok = FALSE ]
  ELSE
    LET y == IF Q.inner THEN rand_range(S.r, 1, 1, DUNGEON_HGT - 2)
             ELSE rand_int(S.r, 1, DUNGEON_HGT)
        x == IF Q.inner THEN rand_range(S.r, 2, 1, DUNGEON_WID - 2)
             ELSE rand_int(S.r, 2, DUNGEON_WID)
    IN  IF place_fits(S, info, p, Q.kind, y, x)
        THEN [ S EXCEPT !.feat[<< y, x >>] = Q.feat,
                        !.r = RandSkip(@, 2),
                        !.i = @ + 1, !.trying = FALSE ]
        ELSE [ S EXCEPT !.r = RandSkip(@, 2), !.d = @ + 1 ]

RECURSIVE scatter_walk(_, _, _, _, _)
scatter_walk(S, info, p, Q, n) ==
  IF S.over THEN S
  ELSE IF n <= 1 THEN scatter_step(S, info, p, Q)
  ELSE Only({ scatter_walk(v, info, p, Q, n - (n \div 2)) :
                v \in { scatter_walk(S, info, p, Q, n \div 2) } })

scatter(L, Q) ==
  Only({ [ L EXCEPT !.feat = S.feat, !.rng = S.r, !.ok = @ /\ S.ok ] :
           S \in { scatter_walk(
                     [ i |-> 0, d |-> 0, trying |-> FALSE, r |-> L.rng,
                       feat |-> L.feat, over |-> FALSE, ok |-> TRUE ],
                     L.info, L.p, Q,
                     (Q.hi + 1) * (PlaceTries + 3)) } })

(* alloc_object(set, typ, num) for the types that change the map. *)
alloc_object(L, set, feat, num) ==
  scatter(L, [ kind |-> set, fixed |-> TRUE, lo |-> num, hi |-> num,
               inner |-> FALSE, limited |-> FALSE, feat |-> feat ])

(* randnor(mean, stand) of z-rand.c, as one draw spread around the mean. *)
randnor(r, k, mean, stand) == rand_spread(r, k, mean, stand)

(* The eight neighbours in the order place_traps_near_doors visits them. *)
Around ==
  << << -1, -1 >>, << -1, 0 >>, << -1, 1 >>, << 0, -1 >>,
     << 0, 1 >>, << 1, -1 >>, << 1, 0 >>, << 1, 1 >> >>

place_traps_near_doors(L, chance) ==
  Drawn([ L EXCEPT
            !.feat = [ c \in Cells |->
                         IF /\ cave_naked_bold(L, c[1], c[2])
                            /\ \E i \in 1 .. Len(L.dun.door), j \in 1 .. 8 :
                                 /\ c = << L.dun.door[i][1] + Around[j][1],
                                           L.dun.door[i][2] + Around[j][2] >>
                                 /\ rand_int(L.rng, 8 * (i - 1) + j, 100)
                                      < chance
                         THEN FEAT.INVIS ELSE @[c] ] ],
        8 * Len(L.dun.door))

(* The monsters, the good items and the gold: draws only. *)
Monsters ==
  /\ gen.pc = "population"
  /\ \E k \in 0 .. MonsterDraws :
       Commit(Drawn(LevelNow, k), "traps")

(* The traps: half of them anywhere, half in corridors, and those near     *)
(* doors.  No chest is placed, so none is trapped.                         *)
Traps ==
  /\ gen.pc = "traps"
  /\ \E L \in { LevelNow } :
       \E t \in { ((5 + rand_int(L.rng, 1, 6)) * area_scale) \div 2 } :
         \E L1 \in { alloc_object(Drawn(L, 1), "BOTH", FEAT.INVIS, t) } :
           \E L2 \in { alloc_object(L1, "CORR", FEAT.INVIS, t) } :
             \E L3 \in { place_traps_near_doors(L2, 20) } :
               /\ L3.ok
               /\ Commit(L3, "rubble")

(* The rubble in corridors and the altars in rooms. *)
RubbleAndAltars ==
  /\ gen.pc = "rubble"
  /\ \E L \in { LevelNow } :
       \E k \in { IF L.p.depth \div 3 > 10 THEN 10
                  ELSE IF L.p.depth \div 3 < 2 THEN 2
                  ELSE L.p.depth \div 3 } :
         \E L1 \in { alloc_object(Drawn(L, 1), "CORR", FEAT.RUBBLE,
                                  randint(L.rng, 1, k)) } :
           \E n \in { randnor(L1.rng, 1, DUN_AMT_ALTAR, 3) } :
             \E L2 \in { alloc_object(Drawn(L1, 1), "ROOM", FEAT.ALTAR_HEAD,
                                      n) } :
               /\ L2.ok
               /\ Commit(L2, "features")

(***************************************************************************)
(* generate.c: populate_features and populate_cover_features.  An ancient  *)
(* ruin is RuinSize across (20), is kept RuinEdge grids off the edge of    *)
(* the map (10) and is given RuinTries tries (100).                        *)
(***************************************************************************)
RuinSize == 3
RuinEdge == 1
RuinTries == 20

(* The corner the t-th try of place_ancient_ruin draws. *)
ruin_corner(r, t) ==
  << rand_range(r, 2 * t - 1, RuinEdge, DUNGEON_HGT - RuinSize - RuinEdge),
     rand_range(r, 2 * t, RuinEdge, DUNGEON_WID - RuinSize - RuinEdge) >>

ruin_safe(L, y, x) ==
  \A dy \in 0 .. RuinSize - 1, dx \in 0 .. RuinSize - 1 :
    /\ in_bounds(y + dy, x + dx)
    /\ ~cave_perma_bold(L, y + dy, x + dx)
    /\ L.feat[<< y + dy, x + dx >>]
         \notin { FEAT.SHAFT, FEAT.QUEST_ENTER, FEAT.QUEST_EXIT }
    /\ "ROOM" \notin L.info[<< y + dy, x + dx >>]

(* The doors of a ruin: rubble inside the ruin turned into ruin doors.  R   *)
(* holds the level, the door i being placed and the tries d made for it.   *)
ruin_door_step(R, y, x, doors) ==
  IF R.over THEN R
  ELSE IF R.i >= doors THEN [ R EXCEPT !.over = TRUE ]
  ELSE IF R.d >= RuinTries THEN [ R EXCEPT !.i = @ + 1, !.d = 0 ]
  ELSE
    LET c == << rand_range(R.L.rng, 1, y + 1, y + RuinSize - 2),
                rand_range(R.L.rng, 2, x + 1, x + RuinSize - 2) >>
    IN  IF R.L.feat[c] = FEAT.RUBBLE
        THEN [ R EXCEPT !.L = Drawn(SetFeat(R.L, c, FEAT.RUIN_DOOR), 2),
                        !.i = @ + 1, !.d = 0 ]
        ELSE [ R EXCEPT !.L = Drawn(R.L, 2), !.d = @ + 1 ]

RECURSIVE ruin_door_walk(_, _, _, _, _)
ruin_door_walk(R, y, x, doors, n) ==
  IF R.over THEN R
  ELSE IF n <= 1 THEN ruin_door_step(R, y, x, doors)
  ELSE Only({ ruin_door_walk(v, y, x, doors, n - (n \div 2)) :
                v \in { ruin_door_walk(R, y, x, doors, n \div 2) } })

ruin_doors(L, y, x, doors) ==
  ruin_door_walk([ L |-> L, i |-> 0, d |-> 0, over |-> FALSE ], y, x, doors,
                 doors * (RuinTries + 1) + 1).L

(* The ruin laid at (y, x): rubble and floor, the two streets, the doors. *)
ruin_build(L, y, x) ==
  Only({ ruin_doors(Drawn(B, 1), y, x, rand_range(B.rng, 1, 1, 3)) :
           B \in { Drawn(
             [ L EXCEPT
                 !.feat = [ c \in Cells |->
                   IF /\ c[1] >= y /\ c[1] < y + RuinSize
                      /\ c[2] >= x /\ c[2] < x + RuinSize
                   THEN IF \/ c[1] = y + (RuinSize \div 2)
                           \/ c[2] = x + (RuinSize \div 2)
                           \/ rand_int(L.rng,
                                       (c[1] - y) * RuinSize + c[2] - x + 1,
                                       100) >= 70
                        THEN FEAT.FLOOR ELSE FEAT.RUBBLE
                   ELSE @[c] ],
                 !.info = [ c \in Cells |->
                   IF /\ c[1] >= y /\ c[1] < y + RuinSize
                      /\ c[2] >= x /\ c[2] < x + RuinSize
                   THEN @[c] \cup { "ROOM" } ELSE @[c] ] ],
             RuinSize * RuinSize) } })

place_ancient_ruin(L) ==
  Only({ IF T = {} THEN Drawn(L, 2 * RuinTries)
         ELSE Only({ ruin_build(Drawn(L, 2 * t),
                                ruin_corner(L.rng, t)[1],
                                ruin_corner(L.rng, t)[2]) :
                       t \in { CHOOSE t \in T : \A u \in T : t <= u } }) :
           T \in { { t \in 1 .. RuinTries :
                       ruin_safe(L, ruin_corner(L.rng, t)[1],
                                 ruin_corner(L.rng, t)[2]) } } })

populate_ruin(L) ==
  IF L.p.depth > 0
  THEN IF rand_int(L.rng, 1, 100) < 5 THEN place_ancient_ruin(Drawn(L, 1))
       ELSE Drawn(L, 1)
  ELSE L

populate_tiles(L) ==
  IF L.p.depth > 0
  THEN scatter(L, [ kind |-> "tile", fixed |-> FALSE, lo |-> 3, hi |-> 8,
                    inner |-> TRUE, limited |-> TRUE,
                    feat |-> FEAT.GLOWING_TILE ])
  ELSE L

populate_fountains(L) ==
  scatter(L, [ kind |-> "fountain", fixed |-> FALSE, lo |-> 2, hi |-> 5,
               inner |-> FALSE, limited |-> TRUE, feat |-> FEAT.FOUNTAIN ])

populate_desk(L) ==
  IF rand_int(L.rng, 1, 100) < 40
  THEN scatter(Drawn(L, 1),
               [ kind |-> "fountain", fixed |-> TRUE, lo |-> 1, hi |-> 1,
                 inner |-> FALSE, limited |-> TRUE,
                 feat |-> FEAT.CARTOGRAPHER ])
  ELSE Drawn(L, 1)

populate_remains(L) ==
  scatter(L, [ kind |-> "remains", fixed |-> FALSE, lo |-> 1, hi |-> 3,
               inner |-> TRUE, limited |-> TRUE,
               feat |-> FEAT.HEROIC_REMAINS ])

PopulateFeatures ==
  /\ gen.pc = "features"
  /\ \E L1 \in { populate_ruin(LevelNow) } :
       \E L2 \in { populate_tiles(L1) } :
         \E L3 \in { populate_fountains(L2) } :
           \E L4 \in { populate_desk(L3) } :
             \E L5 \in { populate_remains(L4) } :
               Commit(L5, "cover")

(***************************************************************************)
(* populate_cover_features and the end of cave_gen.  Each room centre has  *)
(* an even chance of two to five pieces of cover, thrown within            *)
(* CoverSpread of the centre (the source throws within 4 of it); a piece   *)
(* lands only on a naked grid.                                             *)
(***************************************************************************)
CoverSpread == 2

cover_piece(L, y, x) ==
  LET ty == rand_spread(L.rng, 1, y, CoverSpread)
      tx == rand_spread(L.rng, 2, x, CoverSpread)
      roll == rand_int(L.rng, 3, 100)
      feat == IF roll < 30 THEN FEAT.CRATE
              ELSE IF roll < 50 THEN FEAT.BARREL
              ELSE IF roll < 70 THEN FEAT.STONE_PILLAR
              ELSE FEAT.BOULDER
      dura == IF roll < 50 THEN 20
              ELSE IF roll < 70 THEN COVER_DURABILITY.WALL
              ELSE COVER_DURABILITY.BOULDER
      type == IF roll < 50 THEN COVER.LIGHT
              ELSE IF roll < 70 THEN COVER.HEAVY
              ELSE COVER.MEDIUM
  IN  IF ~in_bounds(ty, tx) THEN Drawn(L, 2)
      ELSE IF ~cave_naked_bold(L, ty, tx) THEN Drawn(L, 2)
      ELSE Only({ Drawn([ L EXCEPT !.feat = g.feat, !.cover = g.cover ], 3) :
                  g \in { create_cover_at(Grid(L.feat, L.cover), ty, tx,
                                          type, dura, feat) } })

RECURSIVE cover_pieces(_, _, _, _)
cover_pieces(L, y, x, n) ==
  IF n = 0 THEN L
  ELSE Only({ cover_pieces(L1, y, x, n - 1) : L1 \in { cover_piece(L, y, x) } })

RECURSIVE cover_rooms(_, _)
cover_rooms(L, i) ==
  IF i > Len(L.dun.cent) THEN L
  ELSE Only({ cover_rooms(L1, i + 1) :
              L1 \in { IF rand_int(L.rng, 1, 100) < 50
                       THEN cover_pieces(Drawn(L, 2), L.dun.cent[i][1],
                                         L.dun.cent[i][2],
                                         2 + rand_int(L.rng, 2, 4))
                       ELSE Drawn(L, 1) } })

populate_cover_features(L) == cover_rooms(L, 1)

(* A lit level: every grid that is not a room's floor glows. *)
lit_pass(L) ==
  IF ~L.dun.lit_level THEN L
  ELSE [ L EXCEPT !.info =
           [ c \in Cells |->
               IF "ROOM" \notin L.info[c] \/ ~cave_floor_bold(L, c[1], c[2])
               THEN L.info[c] \cup { "GLOW" }
               ELSE L.info[c] ] ]

PopulateCover ==
  /\ gen.pc = "cover"
  /\ \E L1 \in { populate_cover_features(LevelNow) } :
       Commit(lit_pass(L1), "evaluate")

(***************************************************************************)
(* The end of generate_cave's loop.  The rating of a level comes from its  *)
(* monsters and objects, which are not part of the model, so whether an    *)
(* attempt overflows a list or bores the auto-scummer is a choice; the     *)
(* boring-level rejection is open only where the code tests for it.  A     *)
(* rejected attempt wipes the object and monster lists and nothing else.   *)
(***************************************************************************)
Whys == { "too many objects", "too many monsters", "boring level" }

Reject ==
  /\ gen.pc = "evaluate"
  /\ gen.num + 1 < MaxAttempts
  /\ \E why \in Whys :
       /\ why = "boring level" =>
            /\ gen.run.auto_scum
            /\ gen.num < 100
            /\ p_ptr.inside_special = "NONE"
       /\ gen' = [ gen EXCEPT !.pc = "attempt", !.num = @ + 1, !.why = why ]
  /\ UNCHANGED << cave_feat, cave_info, cave_cover, cov, p_ptr, rng, dun,
                  prev, extVars >>

(* The merchant's grid: up to MerchantTries draws of a row and a column    *)
(* until a naked grid comes up.  The merchant is a monster.                *)
MerchantTries == 1000

merchant_step(M, L) ==
  IF M.over THEN M
  ELSE IF M.i >= MerchantTries THEN [ M EXCEPT !.over = TRUE ]
  ELSE [ M EXCEPT !.r = RandSkip(@, 2), !.i = @ + 1,
                  !.over = cave_naked_bold(L, rand_int(M.r, 1, DUNGEON_HGT),
                                           rand_int(M.r, 2, DUNGEON_WID)) ]

RECURSIVE merchant_walk(_, _, _)
merchant_walk(M, L, n) ==
  IF M.over THEN M
  ELSE IF n <= 1 THEN merchant_step(M, L)
  ELSE Only({ merchant_walk(v, L, n - (n \div 2)) :
                v \in { merchant_walk(M, L, n \div 2) } })

place_merchant(L) ==
  IF L.p.depth >= 6 /\ L.p.depth < 100
  THEN Only({ [ L EXCEPT !.rng = M.r ] :
              M \in { merchant_walk([ i |-> 0, r |-> L.rng, over |-> FALSE ],
                                    L, MerchantTries + 1) } })
  ELSE L

(* An accepted attempt leaves the loop; a seeded dungeon leaves quick mode. *)
Accept ==
  /\ gen.pc = "evaluate"
  /\ \E L1 \in { place_merchant(LevelNow) } :
       Commit([ L1 EXCEPT !.rng.Rand_quick =
                  IF gen.seed_dungeon # 0 THEN FALSE ELSE @ ], "done")

(* The player comes back to a level of a seeded dungeon: generate_cave is  *)
(* called with the player state, the depth and the seed of the first       *)
(* visit.  The complex stream has meanwhile been drawn from by the game.   *)
VisitStates == { 1, 7919 }

Revisit ==
  /\ gen.pc = "done"
  /\ gen.seed_dungeon # 0
  /\ gen.visit < MaxVisits
  /\ prev' = << [ feat |-> cave_feat, info |-> cave_info ] >>
  /\ p_ptr' = gen.run.p
  /\ \E s \in VisitStates : rng' = [ rng EXCEPT !.Rand_state = s ]
  /\ gen' = [ gen EXCEPT !.pc = "start", !.visit = @ + 1, !.num = 0,
                         !.why = "" ]
  /\ dun' = NoDun
  /\ UNCHANGED << cave_feat, cave_info, cave_cover, cov, extVars >>

(***************************************************************************)
(* generate.c: the plasma fractal and terrain_gen.  The wilderness hashes  *)
(* work on machine integers; the tile coordinates and the seed of the      *)
(* model fit sixteen bits, so the bit operations are done on sixteen-bit   *)
(* two's complement and the result is widened.                             *)
(***************************************************************************)
HashBits == 16
HashWord == 2 ^ HashBits

Twos(v) == (v + HashWord) % HashWord
Signed(w) == IF w >= HashWord \div 2 THEN w - HashWord ELSE w

RECURSIVE BitAnd(_, _, _)
BitAnd(a, b, n) ==
  IF n = 0 THEN 0
  ELSE (a % 2) * (b % 2) + 2 * BitAnd(a \div 2, b \div 2, n - 1)

RECURSIVE BitXor(_, _, _)
BitXor(a, b, n) ==
  IF n = 0 THEN 0
  ELSE ((a + b) % 2) + 2 * BitXor(a \div 2, b \div 2, n - 1)

HASH_CORNERS(X, Y, seed_wild) ==
  Signed(BitXor(Twos(X - Y),
                BitAnd(Twos(X + seed_wild), Twos(Y), HashBits), HashBits))

HASH_LEVEL(X, Y, seed_wild) ==
  Signed(BitXor(Twos(Y - X),
                BitAnd(Twos(Y), Twos(X + seed_wild), HashBits), HashBits))

(* Rand_value = v for an int v: the unsigned value, kept within the state  *)
(* space of the stream.                                                    *)
SeedOf(v) == Twos(v % HashWord)

Clamp(v, lo, hi) == IF v < lo THEN lo ELSE IF v > hi THEN hi ELSE v

perturb_point_mid(r, x1, x2, x3, x4, rough, depth_max) ==
  Clamp(((x1 + x2 + x3 + x4) \div 4)
          + (randint(r, 1, rough * 2 + 1) - (rough + 1))
          + (IF (x1 + x2 + x3 + x4) % 4 > 1 THEN 1 ELSE 0),
        0, depth_max)

perturb_point_end(r, x1, x2, x3, rough, depth_max) ==
  Clamp(((x1 + x2 + x3) \div 3)
          + (randint(r, 1, rough * 2 + 1) - (rough + 1))
          + (IF (x1 + x2 + x3) % 3 # 0 THEN 1 ELSE 0),
        0, depth_max)

(* One call of plasma_recursive: P.todo lists the rectangles              *)
(* << x1, y1, x2, y2 >> still to do, in the order the recursion does them. *)
plasma_step(P, depth_max, rough) ==
  IF P.todo = << >> THEN P
  ELSE
    LET x1 == P.todo[1][1]
        y1 == P.todo[1][2]
        x2 == P.todo[1][3]
        y2 == P.todo[1][4]
        xmid == (x2 - x1) \div 2 + x1
        ymid == (y2 - y1) \div 2 + y1
    IN  IF x1 + 1 = x2 THEN [ P EXCEPT !.todo = Tail(@) ]
        ELSE
          Only({ Only({ Only({ Only({ Only({
            [ feat |-> F5, r |-> RandSkip(P.r, 5),
              todo |-> << << x1, y1, xmid, ymid >>, << xmid, y1, x2, ymid >>,
                          << x1, ymid, xmid, y2 >>, << xmid, ymid, x2, y2 >> >>
                       \o Tail(P.todo) ]
            : F5 \in { [ F4 EXCEPT ![<< ymid, x1 >>] =
                  perturb_point_end(RandSkip(P.r, 4), F4[<< y2, x1 >>],
                    F4[<< y1, x1 >>], F4[<< ymid, xmid >>],
                    rough, depth_max) ] } })
            : F4 \in { [ F3 EXCEPT ![<< y2, xmid >>] =
                  perturb_point_end(RandSkip(P.r, 3), F3[<< y2, x2 >>],
                    F3[<< y2, x1 >>], F3[<< ymid, xmid >>],
                    rough, depth_max) ] } })
            : F3 \in { [ F2 EXCEPT ![<< ymid, x2 >>] =
                  perturb_point_end(RandSkip(P.r, 2), F2[<< y1, x2 >>],
                    F2[<< y2, x2 >>], F2[<< ymid, xmid >>],
                    rough, depth_max) ] } })
            : F2 \in { [ F1 EXCEPT ![<< y1, xmid >>] =
                  perturb_point_end(RandSkip(P.r, 1), F1[<< y1, x1 >>],
                    F1[<< y1, x2 >>], F1[<< ymid, xmid >>],
                    rough, depth_max) ] } })
            : F1 \in { [ P.feat EXCEPT ![<< ymid, xmid >>] =
                  perturb_point_mid(P.r, P.feat[<< y1, x1 >>],
                    P.feat[<< y2, x1 >>], P.feat[<< y1, x2 >>],
                    P.feat[<< y2, x2 >>], rough, depth_max) ] } })

RECURSIVE plasma_walk(_, _, _, _)
plasma_walk(P, depth_max, rough, n) ==
  IF P.todo = << >> THEN P
  ELSE IF n <= 1 THEN plasma_step(P, depth_max, rough)
  ELSE Only({ plasma_walk(v, depth_max, rough, n - (n \div 2)) :
                v \in { plasma_walk(P, depth_max, rough, n \div 2) } })

(* The calls plasma_recursive makes on a rectangle w columns wide. *)
RECURSIVE plasma_calls(_)
plasma_calls(w) ==
  IF w <= 1 THEN 1
  ELSE 1 + 2 * plasma_calls(w \div 2) + 2 * plasma_calls(w - (w \div 2))

plasma_recursive(feat, r, x1, y1, x2, y2, depth_max, rough) ==
  plasma_walk([ feat |-> feat, r |-> r, todo |-> << << x1, y1, x2, y2 >> >> ],
              depth_max, rough, plasma_calls(x2 - x1))

(* terrain_table[0], the normal terrain table. *)
terrain_table ==
  << FEAT.DEEP_WATER, FEAT.DEEP_WATER, FEAT.DEEP_WATER, FEAT.DEEP_WATER,
     FEAT.SHAL_WATER, FEAT.SHAL_WATER, FEAT.SHAL_WATER, FEAT.SHAL_WATER,
     FEAT.SHAL_WATER, FEAT.MUD, FEAT.MUD, FEAT.SWAMP, FEAT.SWAMP,
     FEAT.GRASS, FEAT.GRASS, FEAT.GRASS, FEAT.SHRUB, FEAT.SHRUB,
     FEAT.TREES, FEAT.TREES, FEAT.ROCKY_HILL, FEAT.MOUNTAIN >>

(***************************************************************************)
(* terrain_gen, for a player who arrives away from the edge of the map     *)
(* (no scrolling) and has no remembered wilderness position.  The plasma   *)
(* values of the inner grids are turned into terrain, the outer ring is    *)
(* given FEAT_UNSEEN, and the stream generate_cave left is restored at the *)
(* end.  The map is wider than high, as the game's is, so that the fractal *)
(* reaches every inner grid; a grid it left alone would be looked up in    *)
(* the terrain table by whatever it held (L.ok is lowered).                *)
(***************************************************************************)
DUN_WILD_STAIRS == 30
DUN_WILD_VAULT == 100

terrain_corner(L, X, Y) ==
  rand_int([ L.rng EXCEPT !.Rand_quick = TRUE,
                          !.Rand_value =
                            SeedOf(HASH_CORNERS(X, Y, L.run.seed_wild)) ],
           1, 22)

terrain_plasma(L) ==
  Only({ [ L EXCEPT !.feat = P.feat, !.rng = P.r,
                    !.hook = L.p.px = 0 /\ L.p.py = 0 ] :
    P \in { plasma_recursive(
      [ c \in Cells |->
          IF c = << 1, 1 >>
          THEN terrain_corner(L, L.p.wild_x, L.p.wild_y)
          ELSE IF c = << DUNGEON_HGT - 2, 1 >>
          THEN terrain_corner(L, L.p.wild_x, L.p.wild_y + 1)
          ELSE IF c = << 1, DUNGEON_WID - 2 >>
          THEN terrain_corner(L, L.p.wild_x + 1, L.p.wild_y)
          ELSE IF c = << DUNGEON_HGT - 2, DUNGEON_WID - 2 >>
          THEN terrain_corner(L, L.p.wild_x + 1, L.p.wild_y + 1)
          ELSE IF /\ c[1] >= 2 /\ c[1] < DUNGEON_HGT - 2
                  /\ c[2] >= 2 /\ c[2] < DUNGEON_WID - 2
          THEN 11
          ELSE L.feat[c] ],
      [ L.rng EXCEPT !.Rand_quick = TRUE,
                     !.Rand_value =
                       SeedOf(HASH_LEVEL(L.p.wild_x, L.p.wild_y,
                                         L.run.seed_wild)) ],
      1, 1, DUNGEON_WID - 2, DUNGEON_HGT - 2, 21, 1) } })

terrain_paint(L) ==
  Only({ [ L EXCEPT
             !.feat = feat,
             !.ok = @ /\ \A c \in Cells \ Ring : L.feat[c] <= 21,
             !.info = [ c \in Cells |->
                          IF c \in Ring THEN L.info[c]
                          ELSE L.info[c]
                                 \cup (IF L.run.daytime THEN { "GLOW" } ELSE {})
                                 \cup (IF feat[c] < FEAT.DOOR_HEAD
                                       THEN { "ROOM" } ELSE {}) ] ] :
    feat \in { [ c \in Cells |->
                   IF c \in Ring THEN FEAT.UNSEEN
                   ELSE IF L.feat[c] <= 21 THEN terrain_table[L.feat[c] + 1]
                   ELSE L.feat[c] ] } })

terrain_stairs(L) ==
  IF rand_int(L.rng, 1, 100) < DUN_WILD_STAIRS
  THEN alloc_stairs(Drawn(L, 1), FEAT.SHAFT, 1, 0, FALSE)
  ELSE Drawn(L, 1)

(* One wilderness vault: the town's own at the home tile, else the first   *)
(* record drawn of the kind wanted.                                        *)
terrain_vault(L) ==
  LET home == L.p.wild_x = 0 /\ L.p.wild_y = 0
      k == IF home THEN 0
           ELSE vault_pick(L.rng, 1, IF L.p.depth # 0 THEN 13 ELSE 10)
      v == IF home THEN v_info[L.p.which_town]
           ELSE v_info[rand_int(L.rng, k, MAX_V_IDX) + 1]
      hgt == Len(v.text)
      wid == Len(v.text[1])
      vy == rand_range(L.rng, k + 1, (hgt \div 2) + 1,
                       DUNGEON_HGT - (hgt \div 2) - 1)
      vx == rand_range(L.rng, k + 2, (wid \div 2) + 1,
                       DUNGEON_WID - (wid \div 2) - 1)
  IN  build_vault([ Drawn(L, k + 2) EXCEPT !.rng.Rand_quick = FALSE ],
                  vy, vx, v)

RECURSIVE terrain_vaults(_, _)
terrain_vaults(L, number) ==
  IF number = 0 THEN L
  ELSE Only({ terrain_vaults(L1, number - 1) : L1 \in { terrain_vault(L) } })

(* The depth is taken from the wilderness depth, then the vaults are laid:  *)
(* the magik roll is made first and cannot fail.                           *)
terrain_depth_and_vaults(L) ==
  Only({ IF magik(L0.rng, 1, DUN_WILD_VAULT) \/ L0.p.depth = 0
         THEN terrain_vaults(
                Drawn(L0, IF L0.p.depth # 0 THEN 2 ELSE 1),
                Only({ IF Abs(n) = 0 THEN 1 ELSE Abs(n) :
                       n \in { IF L0.p.depth # 0
                               THEN randnor(L0.rng, 2, 0, 1) ELSE 1 } }))
         ELSE Drawn(L0, 1)
         : L0 \in { [ L EXCEPT !.p.depth = L.p.wilderness_depth ] } })

terrain_player(L) ==
  Only({ [ L1 EXCEPT !.rng.Rand_quick = FALSE ] :
         L1 \in { IF L.hook THEN [ L EXCEPT !.hook = FALSE ]
                  ELSE new_player_spot(L) } })

(* Monsters and objects make k draws; the altars go on room grids. *)
terrain_fill(L, k) ==
  Only({ alloc_object(Drawn(L1, 1), "ROOM", FEAT.ALTAR_HEAD,
                      randnor(L1.rng, 1, DUN_AMT_ALTAR, 3)) :
         L1 \in { Drawn(L, k) } })

terrain_gen(L, k) ==
  Only({ Only({ Only({ Only({ Only({ Only({
    [ L6 EXCEPT !.rng.Rand_quick = L.rng.Rand_quick,
                !.rng.Rand_value = L.rng.Rand_value ]
    : L6 \in { terrain_fill(L5, k) } })
    : L5 \in { terrain_player(L4) } })
    : L4 \in { terrain_depth_and_vaults(L3) } })
    : L3 \in { terrain_stairs(L2) } })
    : L2 \in { terrain_paint(L1) } })
    : L1 \in { terrain_plasma(L) } })

(* A player within two grids of the edge of the map scrolls the            *)
(* wilderness, which is outside the model.                                 *)
Scrolls(p) ==
  /\ ~(p.px = 0 /\ p.py = 0)
  /\ \/ p.py <= 2 \/ p.py >= DUNGEON_HGT - 3
     \/ p.px <= 2 \/ p.px >= DUNGEON_WID - 3

TerrainGen ==
  /\ Builds("terrain")
  /\ ~Scrolls(p_ptr)
  /\ \E k \in 0 .. MonsterDraws :
       \E L1 \in { terrain_gen(Blank(LevelNow), k) } :
         /\ L1.ok
         /\ Commit(L1, "evaluate")

(* town_gen: the town is the wilderness tile the player is on.  The        *)
(* scholar it goes on to place is a monster.                               *)
TownGen ==
  /\ Builds("town")
  /\ ~Scrolls(p_ptr)
  /\ \E k \in 0 .. MonsterDraws :
       \E L1 \in { terrain_gen([ Blank(LevelNow) EXCEPT
                                   !.p.inside_special = "WILD" ], k) } :
         /\ L1.ok
         /\ Commit(Drawn(L1, k), "evaluate")

(***************************************************************************)
(* store_gen, arena_gen and quest_gen: one vault on a filled map.  The     *)
(* stock of a store is objects and makes draws the model leaves open.      *)
(***************************************************************************)
cave_boring_bold(feat, c) ==
  feat[c] <= FEAT.INVIS \/ feat[c] >= FEAT.SECRET

Lights(feat, c) ==
  \/ feat[c] >= FEAT.SHOP_HEAD /\ feat[c] <= FEAT.STORE_EXIT

lite_up_town(L, daytime) ==
  [ L EXCEPT !.info =
      [ c \in Cells |->
          IF \/ daytime
             \/ ~cave_boring_bold(L.feat, c)
             \/ \E d \in Cells :
                  /\ in_bounds_fully(d[1], d[2])
                  /\ Lights(L.feat, d)
                  /\ Abs(d[1] - c[1]) <= 1 /\ Abs(d[2] - c[2]) <= 1
          THEN L.info[c] \cup { "GLOW" }
          ELSE L.info[c] ] ]

Filled(L, feat) == [ L EXCEPT !.feat = [ c \in Cells |-> feat ] ]

store_gen(L, k) ==
  Only({ Drawn(lite_up_town(
                 build_vault(Filled(L, FEAT.PERM_SOLID),
                             (Len(v.text) \div 2) + 2,
                             (Len(v.text[1]) \div 2) + 2, v),
                 L.run.daytime), k)
         : v \in { v_info[L.p.store_vault] } })

arena_gen(L) ==
  Only({ lite_up_town(
           build_vault(Filled(L, FEAT.PERM_SOLID),
                       (Len(v.text) \div 2) + 2,
                       (Len(v.text[1]) \div 2) + 2, v),
           L.run.daytime)
         : v \in { v_info[L.p.which_arena_layout] } })

(* q_v_ptrs[]: the vault record of each quest. *)
q_v_ptrs == << 4, 6, 7 >>

quest_base(L, v, k) ==
  IF v.gen_info = 2 THEN Filled(L, FEAT.FOG)
  ELSE IF v.gen_info # 1 THEN Filled(L, FEAT.PERM_SOLID)
  ELSE terrain_gen([ Drawn(L, 2) EXCEPT
                       !.p.wild_x = rand_range(L.rng, 1, -100, 100),
                       !.p.wild_y = rand_range(L.rng, 2, -100, 100) ], k)

quest_vault(L, v) ==
  Only({ build_vault(
           [ Drawn(Q, 2) EXCEPT
               !.rng.Rand_quick = IF L.seed # 0 THEN FALSE ELSE @ ],
           rand_range(Q.rng, 1, (Len(v.text) \div 2) + 1,
                      DUNGEON_HGT - (Len(v.text) \div 2) - 1),
           rand_range(Q.rng, 2, (Len(v.text[1]) \div 2) + 1,
                      DUNGEON_WID - (Len(v.text[1]) \div 2) - 1),
           v)
         : Q \in { [ L EXCEPT !.rng.Rand_quick =
                                 IF L.seed # 0 THEN TRUE ELSE @ ] } })

quest_gen(L, k) ==
  IF L.p.which_quest = 0 THEN L
  ELSE Only({ Only({ quest_vault(L1, v) : L1 \in { quest_base(L, v, k) } })
              : v \in { v_info[q_v_ptrs[L.p.which_quest]] } })

StoreGen ==
  /\ Builds("store")
  /\ \E k \in 0 .. MonsterDraws :
       Commit(store_gen(Blank(LevelNow), k), "evaluate")

ArenaGen ==
  /\ Builds("arena")
  /\ Commit(arena_gen(Blank(LevelNow)), "evaluate")

QuestGen ==
  /\ Builds("quest")
  /\ \E k \in 0 .. MonsterDraws :
       \E L1 \in { quest_gen(Blank(LevelNow), k) } :
         /\ L1.ok
         /\ Commit(L1, "evaluate")

(***************************************************************************)
(* The levels generated: each run fixes the depth, the kind of level, the  *)
(* dungeon seed (0 for an unseeded dungeon) and the state of the complex   *)
(* stream.                                                                 *)
(***************************************************************************)
Player(depth, inside_special, which_quest, py, px) ==
  [ depth |-> depth, inside_special |-> inside_special,
    which_quest |-> which_quest, py |-> py, px |-> px, placed |-> FALSE,
    wild_x |-> 0, wild_y |-> 0, wilderness_depth |-> depth,
    which_town |-> 2, which_arena_layout |-> 3, store_vault |-> 3 ]

Run(p, seed_dungeon, Rand_state) ==
  [ p |-> p, seed_dungeon |-> seed_dungeon, Rand_state |-> Rand_state,
    allow_open_levels |-> FALSE, auto_scum |-> TRUE, seed_wild |-> 1,
    daytime |-> TRUE ]

(* Dungeon levels whose every roll the model follows to the end (ruins      *)
(* sectors, plain rooms and lesser vaults), by depth and dungeon seed.     *)
CaveRuns ==
  { Run(Player(1, "NONE", 0, 0, 0), 387833, 1),
    Run(Player(1, "NONE", 0, 0, 0), 119640, 1),
    Run(Player(100, "NONE", 0, 0, 0), 3661, 1),
    Run(Player(1, "DREAM", 0, 0, 0), 84745, 1) }

(* The town, a wilderness tile, a store, an arena and the quests. *)
SpecialRuns ==
  { Run(Player(0, "NONE", 0, 0, 0), 997, 1),
    Run(Player(3, "WILD", 0, 5, 5), 997, 1),
    Run(Player(3, "STORE", 0, 0, 0), 997, 1),
    Run(Player(3, "ARENA", 0, 0, 0), 997, 1) }
  \cup { Run(Player(3, "QUEST", q, 0, 0), 1994, 1) : q \in 0 .. 3 }

Runs == CaveRuns \cup SpecialRuns

Init ==
  /\ cave_feat = [ c \in Cells |-> FEAT.NONE ]
  /\ cave_info = [ c \in Cells |-> {} ]
  /\ cave_cover = init_cover_system
  /\ cov = [ calls |-> 0, last |-> NoCall ]
  /\ \E run \in Runs :
       /\ p_ptr = run.p
       /\ rng = [ Rand_quick |-> FALSE, Rand_value |-> 0,
                  Rand_state |-> run.Rand_state ]
       /\ gen = [ pc |-> "start", num |-> 0, why |-> "",
                  seed_dungeon |-> run.seed_dungeon, visit |-> 1,
                  allow_open_levels |-> run.allow_open_levels, run |-> run ]
  /\ dun = NoDun
  /\ prev = << >>
  /\ InitExtIdle

Next ==
  \/ GenerateCave
  \/ CaveGenStart
  \/ RoomAttempt
  \/ BoundaryWalls
  \/ ConnectRoom
  \/ ConnectDone
  \/ LinkRoom
  \/ JunctionDoors
  \/ BuildStreamer
  \/ BuildStreams
  \/ DownStairs
  \/ UpStairs
  \/ PlayerSpot
  \/ Monsters
  \/ Traps
  \/ RubbleAndAltars
  \/ PopulateFeatures
  \/ PopulateCover
  \/ Reject
  \/ Accept
  \/ Revisit
  \/ TerrainGen
  \/ TownGen
  \/ StoreGen
  \/ ArenaGen
  \/ QuestGen

Spec == Init /\ [][Next]_vars

(***************************************************************************)
(* Properties of the cover engine.                                         *)
(***************************************************************************)

(* C8: after any sequence of create_cover_at, damage_cover and             *)
(* destroy_cover calls, every cell that has a cover record has a           *)
(* durability greater than 0 and no greater than its max_durability.       *)
CoverDurabilityInRange ==
  \A c \in Cells :
    cave_cover[c] # << >> =>
      /\ 0 < cave_cover[c][1].durability
      /\ cave_cover[c][1].durability <= cave_cover[c][1].max_durability

(* A damage_cover call has just worn a record down without breaking it. *)
CoverWornNotBroken ==
  /\ cov.last.op = "damage_cover"
  /\ ~cov.last.broke
  /\ in_bounds(cov.last.y, cov.last.x)
  /\ cave_cover[<<cov.last.y, cov.last.x>>] # << >>
  /\ cave_cover[<<cov.last.y, cov.last.x>>][1].durability
       < cave_cover[<<cov.last.y, cov.last.x>>][1].max_durability

(* C9: whenever a damage_cover call reduces a cover record's durability to *)
(* 0 or below, then when the call returns the cell's feature is FLOOR and  *)
(* the cell has no cover record.                                           *)
BrokenCoverIsFloor ==
  (cov.last.op \in { "damage_cover", "attack_through_cover" } /\ cov.last.broke)
    => /\ cave_feat[<<cov.last.y, cov.last.x>>] = FEAT.FLOOR
       /\ cave_cover[<<cov.last.y, cov.last.x>>] = << >>

(* A direct damage_cover call has just driven a durability to <= 0. *)
CoverJustBroken == cov.last.op = "damage_cover" /\ cov.last.broke

(* C10: when attack_through_cover finds cover and the attack is blocked by *)
(* HEAVY-or-better directional cover next to the target, the call reports  *)
(* a miss, sets the target's damage to 0, and reports as absorbed by cover  *)
(* the full original damage.                                                *)
BlockedAttackAbsorbsAll ==
  ( /\ cov.last.op = "attack_through_cover"
    /\ cov.last.cover # COVER.NONE
    /\ cov.last.blocked )
    => /\ ~cov.last.hit
       /\ cov.last.damage = 0
       /\ cov.last.cover_damage_out = cov.last.original_damage

(***************************************************************************)
(* Properties of the levels generate_cave returns.                         *)
(***************************************************************************)
Done == gen.pc = "done"

(* The level was built by cave_gen (a dream level is). *)
DungeonLevel == p_ptr.inside_special \in { "NONE", "DREAM" } /\ p_ptr.depth > 0

Count(feat) == Cardinality({ c \in Cells : cave_feat[c] = feat })

(* C1, as the spec states it: after every call to generate_cave, whatever  *)
(* kind of level it produced, every cell of the outer ring has feature     *)
(* PERM_SOLID.                                                             *)
RingIsPermSolid ==
  Done => \A c \in Ring : cave_feat[c] = FEAT.PERM_SOLID

(* C1, amended: after every call to generate_cave that produced an         *)
(* ordinary dungeon level, a store or an arena, every cell of the outer    *)
(* ring has feature PERM_SOLID.                                            *)
RingOfDungeonIsPermSolid ==
  ( /\ Done
    /\ \/ DungeonLevel
       \/ p_ptr.inside_special \in { "STORE", "ARENA", "MAGIC_ARENA" } )
    => \A c \in Ring : cave_feat[c] = FEAT.PERM_SOLID

(* A finished dungeon level where a corridor or a stream runs along the    *)
(* ring: a grid next to the ring is no wall.                               *)
RingAroundDungeon ==
  /\ Done
  /\ DungeonLevel
  /\ p_ptr.placed
  /\ \E c \in Cells \ Ring :
       /\ cave_feat[c] < FEAT.RUBBLE
       /\ \E d \in Ring : Abs(d[1] - c[1]) <= 1 /\ Abs(d[2] - c[2]) <= 1

(* The grids the player can walk to from (py, px) over floor-like grids    *)
(* (every feature below the doors) and doors, secret doors included,       *)
(* moving to any of the eight neighbours.                                  *)
Walkable(c) == cave_feat[c] < FEAT.DOOR_HEAD \/ cave_feat[c] <= FEAT.SECRET

RECURSIVE Reach(_)
Reach(S) ==
  Only({ IF N = S THEN S ELSE Reach(N) :
         N \in { S \cup { c \in Cells :
                   /\ Walkable(c)
                   /\ \E d \in S : Abs(d[1] - c[1]) <= 1
                                   /\ Abs(d[2] - c[2]) <= 1 } } })

(* C2: after every call to generate_cave for a dungeon level, every cell   *)
(* flagged ROOM that the player could stand on is reached from the         *)
(* player's cell by a path of adjacent floor or door cells.                *)
RoomsReachable ==
  ( Done /\ DungeonLevel /\ p_ptr.placed ) =>
    \A c \in Cells :
      ( "ROOM" \in cave_info[c] /\ cave_feat[c] = FEAT.FLOOR ) =>
        c \in Reach({ << p_ptr.py, p_ptr.px >> })

(* C3: once a vault has been built and its cells flagged ICKY, no step of  *)
(* the tunnel pass or of the streamer passes of the same generation        *)
(* changes the feature or the flags of an ICKY cell.                       *)
IckyCellsKept ==
  [][ gen.pc \in { "tunnels", "links", "streamers" } =>
        \A c \in Cells :
          "ICKY" \in cave_info[c] =>
            /\ cave_feat'[c] = cave_feat[c]
            /\ cave_info'[c] = cave_info[c] ]_vars

(* C4: a dungeon level above the terminal depth has at least 1 and at most *)
(* 3 up-stairs cells.                                                      *)
UpStairsOneToThree ==
  ( Done /\ DungeonLevel /\ p_ptr.depth < MAX_DEPTH - 1 ) =>
    ( Count(FEAT.LESS) >= 1 /\ Count(FEAT.LESS) <= 3 )

(* C5: a town level has no up-stairs cell, a level at the terminal depth   *)
(* has no down-stairs cell, and a level at any other depth has at least    *)
(* one up-stairs cell and at least one down-stairs cell.                   *)
StairsByDepth ==
  Done =>
    /\ p_ptr.depth = 0 => Count(FEAT.LESS) = 0
    /\ p_ptr.depth >= MAX_DEPTH - 1 => Count(FEAT.MORE) = 0
    /\ ( p_ptr.depth > 0 /\ p_ptr.depth < MAX_DEPTH - 1 ) =>
         ( Count(FEAT.LESS) >= 1 /\ Count(FEAT.MORE) >= 1 )

(* C6: two runs of generate_cave with the same non-zero dungeon seed, the  *)
(* same depth and the same player state end with the same grid: the same   *)
(* feature and the same flags in every cell.                               *)
SeededRunsAgree ==
  ( Done /\ prev # << >> ) =>
    prev[1] = [ feat |-> cave_feat, info |-> cave_info ]

(* C7: when generate_cave rejected an attempt and retried, nothing of the  *)
(* rejected attempt is left in the accepted level; an attempt that starts  *)
(* from a wiped level leaves a cover record only on the cell it gave the   *)
(* record's feature to.                                                    *)
RetryLeavesNothing ==
  ( Done /\ gen.num > 0 ) =>
    \A c \in Cells :
      cave_cover[c] # << >> => cave_feat[c] = cave_cover[c][1].terrain_feat

(***************************************************************************)
(* Properties of attack_through_cover and get_cover_vs_direction.          *)
(***************************************************************************)
AttackMetCover ==
  /\ cov.last.op = "attack_through_cover"
  /\ cov.last.cover # COVER.NONE
  /\ ~cov.last.blocked

(* C11: for every attack_through_cover call that meets cover and is not    *)
(* blocked, the damage left to the target plus the damage reported for the *)
(* cover is the original damage: either the target takes 0 and the cover   *)
(* the whole of it (a miss), or the cover takes original * absorb / 100    *)
(* and the target the remainder (a hit).                                   *)
CoverDamageConserved ==
  AttackMetCover =>
    /\ cov.last.damage + cov.last.cover_damage_out = cov.last.original_damage
    /\ \/ /\ cov.last.damage = 0
          /\ cov.last.cover_damage_out = cov.last.original_damage
          /\ ~cov.last.hit
       \/ /\ cov.last.cover_damage_out =
               TruncDiv(cov.last.original_damage
                          * absorb_percent(cov.last.cover), 100)
          /\ cov.last.damage =
               cov.last.original_damage - cov.last.cover_damage_out
          /\ cov.last.hit = (cov.last.damage > 0)

(* A hit through cover that splits the damage between cover and target. *)
CoverSharedTheDamage ==
  /\ AttackMetCover
  /\ cov.last.hit
  /\ cov.last.cover_damage_out > 0
  /\ cov.last.damage > 0
  /\ cov.last.damage + cov.last.cover_damage_out = 25

FogFamily == { FEAT.FOG, FEAT.FOG_DENSE, FEAT.SMOKE, FEAT.CHAOS_FOG }

(* The grids strictly between attacker a and target t on the trace of      *)
(* get_cover_vs_direction.                                                 *)
Between(a, t) ==
  { c \in Cells :
      \E i \in 1 .. distance(a[1], a[2], t[1], t[2]) - 1 :
        c = << TraceY(a[1], t[1], i, distance(a[1], a[2], t[1], t[2])),
               TraceX(a[2], t[2], i, distance(a[1], a[2], t[1], t[2])) >> }

(* C12: in get_cover_vs_direction a grid strictly between attacker and     *)
(* target whose feature is fog, dense fog, smoke or chaos fog never        *)
(* contributes to the result: with that grid turned into bare floor the    *)
(* result is the same.                                                     *)
FogNeverCovers ==
  \A a \in Attackers, t \in CoverPoints :
    \A c \in Between(a, t) :
      cave_feat[c] \in FogFamily =>
        get_cover_vs_direction(Grid(cave_feat, cave_cover),
                               t[1], t[2], a[1], a[2])
          = get_cover_vs_direction(
              Grid([ cave_feat EXCEPT ![c] = FEAT.FLOOR ], cave_cover),
              t[1], t[2], a[1], a[2])

(***************************************************************************)
(* patrol.c.  The operators take and return a world W: W.feat and W.cover  *)
(* are the grid, W.m_list the monsters (m_list[i].guard is m_guard[i]:     *)
(* << >> for NULL, else the one-element sequence of the record), W.py and  *)
(* W.px the player's grid and W.rng the random stream.                     *)
(***************************************************************************)

(* Tunable patrol constants (defines.h), scaled to the map. *)
PATROL_RADIUS == 4
PATROL_REST_TURNS == 2
PATROL_MAX_WAYPOINTS == 8
GUARD_CHASE_TIMEOUT == 1
GUARD_ALERT_RADIUS == 2

(* The player's stealth skill, p_ptr->skill_stl. *)
skill_stl == 5

(* Stealth a hiding player gains from cover (defines.h). *)
COVER_STEALTH == [ LIGHT |-> 1, MEDIUM |-> 2, HEAVY |-> 3 ]

(* The races of r_info the monsters are drawn from: one SMART, one of a    *)
(* pack (FRIENDS), one neither and too dull to notice the player.          *)
r_info ==
  << [ SMART |-> TRUE, FRIENDS |-> FALSE, aaf |-> 20 ],
     [ SMART |-> FALSE, FRIENDS |-> TRUE, aaf |-> 20 ],
     [ SMART |-> FALSE, FRIENDS |-> FALSE, aaf |-> 0 ] >>

(* (int)(sin(angle * M_PI / 128.0) * 256.0) and the same of cos, for the   *)
(* angles (i * 256) / n with n in 4 .. 7 that the route builders pass.     *)
SinCos ==
  [ a \in { 0, 36, 42, 51, 64, 73, 85, 102, 109, 128, 146, 153, 170, 182,
            192, 204, 213, 219 } |->
      CASE a = 0 -> << 0, 256 >>      [] a = 36 -> << 197, 162 >>
        [] a = 42 -> << 219, 131 >>   [] a = 51 -> << 243, 80 >>
        [] a = 64 -> << 256, 0 >>     [] a = 73 -> << 249, -56 >>
        [] a = 85 -> << 222, -126 >>  [] a = 102 -> << 152, -205 >>
        [] a = 109 -> << 115, -228 >> [] a = 128 -> << 0, -256 >>
        [] a = 146 -> << -109, -231 >> [] a = 153 -> << -147, -209 >>
        [] a = 170 -> << -219, -131 >> [] a = 182 -> << -248, -62 >>
        [] a = 192 -> << -256, 0 >>   [] a = 204 -> << -244, 74 >>
        [] a = 213 -> << -222, 126 >> [] a = 219 -> << -201, 157 >> ]

sind(angle) == SinCos[angle][1]
cosd(angle) == SinCos[angle][2]

get_stealth_bonus_from_cover(W, y, x) ==
  LET cover == get_cover_at(W, y, x)
  IN  IF cover = COVER.LIGHT THEN COVER_STEALTH.LIGHT
      ELSE IF cover = COVER.MEDIUM THEN COVER_STEALTH.MEDIUM
      ELSE IF cover \in { COVER.HEAVY, COVER.TOTAL } THEN COVER_STEALTH.HEAVY
      ELSE 0

(* get_elevation() (cave.c): the map of the model is level ground. *)
get_elevation(W, y, x) == 0

(* monster_swap() (monster2.c): whatever stands on either grid, monster or *)
(* player, changes place with what stands on the other.                    *)
SwapGrid(c, a, b) == IF c = a THEN b ELSE IF c = b THEN a ELSE c

monster_swap(W, y1, x1, y2, x2) ==
  LET moved(c) == SwapGrid(c, << y1, x1 >>, << y2, x2 >>)
  IN  [ W EXCEPT
          !.m_list = [ i \in DOMAIN W.m_list |->
                         IF W.m_list[i].r_idx = 0 THEN W.m_list[i]
                         ELSE [ W.m_list[i] EXCEPT
                                  !.fy = moved(<< W.m_list[i].fy,
                                                  W.m_list[i].fx >>)[1],
                                  !.fx = moved(<< W.m_list[i].fy,
                                                  W.m_list[i].fx >>)[2] ] ],
          !.py = moved(<< W.py, W.px >>)[1],
          !.px = moved(<< W.py, W.px >>)[2] ]

(* A zeroed patrol_waypoint and the record ZNEW and alloc_guard_data make. *)
NoWaypoint == [ y |-> 0, x |-> 0, wait_turns |-> 0 ]

NewGuard ==
  [ guard_state |-> "PATROL", patrol_type |-> "RANDOM",
    guard_post_type |-> "NONE", num_waypoints |-> 0, current_waypoint |-> 0,
    chase_timer |-> 0, home_y |-> 0, home_x |-> 0, alert_y |-> 0,
    alert_x |-> 0,
    waypoints |-> [ i \in 0 .. PATROL_MAX_WAYPOINTS - 1 |-> NoWaypoint ] ]

alloc_guard_data(W, m_idx) ==
  IF W.m_list[m_idx].guard = << >>
  THEN [ W EXCEPT !.m_list[m_idx].guard = << NewGuard >> ]
  ELSE W

Guard(W, m_idx) == W.m_list[m_idx].guard[1]
SetGuard(W, m_idx, guard) == [ W EXCEPT !.m_list[m_idx].guard = << guard >> ]

(* ring_waypoint without the fall back to the centre. *)
ring_waypoint_unchecked(W, cy, cx, i, n, k, lo, spread, rest, rests) ==
  [ y |-> cy + TruncDiv((lo + rand_int(W.rng, k, spread))
                          * sind((i * 256) \div n), 256),
    x |-> cx + TruncDiv((lo + rand_int(W.rng, k, spread))
                          * cosd((i * 256) \div n), 256),
    wait_turns |-> rest + rand_int(W.rng, k + 1, rests) ]

(* One waypoint of a ring of n around (cy, cx): the k-th and (k+1)-th      *)
(* draws give its distance lo + rand_int(spread) and its rest rest +       *)
(* rand_int(rests); a grid off the map or not floor falls back to the      *)
(* centre.                                                                 *)
ring_waypoint(W, cy, cx, i, n, k, lo, spread, rest, rests) ==
  LET angle == (i * 256) \div n
      dist == lo + rand_int(W.rng, k, spread)
      y == cy + TruncDiv(dist * sind(angle), 256)
      x == cx + TruncDiv(dist * cosd(angle), 256)
      wait_turns == rest + rand_int(W.rng, k + 1, rests)
  IN  IF ~in_bounds(y, x) \/ ~cave_floor_bold(W, y, x)
      THEN [ y |-> cy, x |-> cx, wait_turns |-> wait_turns ]
      ELSE [ y |-> y, x |-> x, wait_turns |-> wait_turns ]

setup_monster_patrol(W, m_idx, type) ==
  LET A == alloc_guard_data(W, m_idx)
      m_ptr == A.m_list[m_idx]
      guard == [ Guard(A, m_idx) EXCEPT !.patrol_type = type,
                                       !.home_y = m_ptr.fy,
                                       !.home_x = m_ptr.fx,
                                       !.guard_state = "PATROL" ]
      n == 4 + rand_int(A.rng, 1, 4)
  IN  IF type \in { "CIRCUIT", "BACKFORTH" }
      THEN [ SetGuard(A, m_idx,
               [ guard EXCEPT
                   !.num_waypoints = n,
                   !.waypoints =
                     [ i \in DOMAIN guard.waypoints |->
                         IF i < n
                         THEN ring_waypoint(A, guard.home_y, guard.home_x, i,
                                            n, 2 + 2 * i, 3,
                                            PATROL_RADIUS - 2, 5,
                                            PATROL_REST_TURNS)
                         ELSE guard.waypoints[i] ] ])
             EXCEPT !.rng = RandSkip(A.rng, 1 + 2 * n) ]
      ELSE IF type = "RANDOM"
      THEN SetGuard(A, m_idx, [ guard EXCEPT !.num_waypoints = 0 ])
      ELSE IF type = "STATIONARY"
      THEN SetGuard(A, m_idx,
             [ guard EXCEPT
                 !.num_waypoints = 1,
                 !.waypoints[0] = [ y |-> guard.home_y, x |-> guard.home_x,
                                    wait_turns |-> 0 ],
                 !.guard_state = "GUARD" ])
      ELSE SetGuard(A, m_idx, guard)

(* The grid of the 7 x 7 box around (y, x) that setup_guard_post settles   *)
(* a HIGHGROUND guard on: the first, in scan order, of the floor grids     *)
(* with the best elevation plus cover, or (y, x) when none beats it.       *)
post_score(W, y, x) == get_elevation(W, y, x) + get_cover_at(W, y, x)

highground(W, y, x) ==
  LET better == { c \in ((y - 3) .. (y + 3)) \X ((x - 3) .. (x + 3)) :
                    /\ in_bounds(c[1], c[2])
                    /\ cave_floor_bold(W, c[1], c[2])
                    /\ post_score(W, c[1], c[2]) > post_score(W, y, x) }
      best == { c \in better :
                  \A d \in better :
                    post_score(W, d[1], d[2]) <= post_score(W, c[1], c[2]) }
  IN  IF better = {} THEN << y, x >>
      ELSE CHOOSE c \in best :
             \A d \in best :
               c[1] < d[1] \/ (c[1] = d[1] /\ c[2] <= d[2])

setup_guard_post(W, m_idx, post_type, y, x) ==
  LET A == alloc_guard_data(W, m_idx)
      m_ptr == A.m_list[m_idx]
      guard == [ Guard(A, m_idx) EXCEPT !.guard_post_type = post_type,
                                       !.home_y = y,
                                       !.home_x = x,
                                       !.guard_state = "GUARD" ]
      G == SetGuard(A, m_idx, guard)
  IN  IF post_type = "DOOR"
      THEN IF m_ptr.fy # y \/ m_ptr.fx # x
           THEN monster_swap(G, m_ptr.fy, m_ptr.fx, y, x)
           ELSE G
      ELSE IF post_type = "HIGHGROUND"
      THEN IF highground(G, y, x) # << y, x >>
           THEN monster_swap(G, y, x, highground(G, y, x)[1],
                             highground(G, y, x)[2])
           ELSE G
      ELSE IF post_type = "TREASURE"
      THEN [ SetGuard(A, m_idx,
               [ guard EXCEPT
                   !.waypoints[0] = [ y |-> y, x |-> x, wait_turns |-> 50 ],
                   !.num_waypoints = 1,
                   !.patrol_type = "STATIONARY" ])
             EXCEPT !.m_list[m_idx].fy = y, !.m_list[m_idx].fx = x ]
      ELSE [ G EXCEPT !.m_list[m_idx].fy = y, !.m_list[m_idx].fx = x ]

advance_patrol_waypoint(W, m_idx) ==
  LET guard == Guard(W, m_idx)
      cw == guard.current_waypoint
  IN  IF guard.num_waypoints = 0 THEN W
      ELSE IF guard.patrol_type = "CIRCUIT"
      THEN SetGuard(W, m_idx,
             [ guard EXCEPT !.current_waypoint =
                 IF cw + 1 >= guard.num_waypoints THEN 0 ELSE cw + 1 ])
      ELSE IF guard.patrol_type = "BACKFORTH"
      THEN SetGuard(W, m_idx,
             [ guard EXCEPT !.current_waypoint =
                 IF (cw \div 128) % 2 = 1
                 THEN IF (cw % 128) - 1 < 0 THEN 1
                      ELSE ((cw % 128) - 1) + 128
                 ELSE IF cw + 1 >= guard.num_waypoints
                      THEN (guard.num_waypoints - 2) + 128
                      ELSE cw + 1 ])
      ELSE IF guard.patrol_type = "RANDOM"
      THEN [ SetGuard(W, m_idx,
               [ guard EXCEPT
                   !.waypoints[0].y =
                     guard.home_y + rand_int(W.rng, 1, PATROL_RADIUS * 2)
                       - PATROL_RADIUS,
                   !.waypoints[0].x =
                     guard.home_x + rand_int(W.rng, 2, PATROL_RADIUS * 2)
                       - PATROL_RADIUS,
                   !.current_waypoint = 0 ])
             EXCEPT !.rng = RandSkip(W.rng, 2) ]
      ELSE W

(* alert_nearby_guards that alerts a guard whatever state it is in. *)
alert_nearby_guards_any_state(W, y, x, radius) ==
  [ W EXCEPT !.m_list =
      [ m_idx \in DOMAIN W.m_list |->
          LET m_ptr == W.m_list[m_idx]
          IN  IF m_ptr.r_idx = 0 \/ m_ptr.guard = << >> THEN m_ptr
              ELSE IF distance(y, x, m_ptr.fy, m_ptr.fx) > radius THEN m_ptr
              ELSE IF ~r_info[m_ptr.r_idx].SMART
                      /\ ~r_info[m_ptr.r_idx].FRIENDS
              THEN m_ptr
              ELSE [ m_ptr EXCEPT !.guard[1].guard_state = "ALERT",
                                  !.guard[1].alert_y = y,
                                  !.guard[1].alert_x = x ] ] ]

(* alert_nearby_guards that does not look at the distance. *)
alert_nearby_guards_any_distance(W, y, x, radius) ==
  [ W EXCEPT !.m_list =
      [ m_idx \in DOMAIN W.m_list |->
          LET m_ptr == W.m_list[m_idx]
          IN  IF m_ptr.r_idx = 0 \/ m_ptr.guard = << >> THEN m_ptr
              ELSE IF ~r_info[m_ptr.r_idx].SMART
                      /\ ~r_info[m_ptr.r_idx].FRIENDS
              THEN m_ptr
              ELSE IF m_ptr.guard[1].guard_state
                        \in { "PATROL", "GUARD", "SLEEP" }
              THEN [ m_ptr EXCEPT !.guard[1].guard_state = "ALERT",
                                  !.guard[1].alert_y = y,
                                  !.guard[1].alert_x = x ]
              ELSE m_ptr ] ]

(* m_max is one past the last monster in use. *)
alert_nearby_guards(W, y, x, radius) ==
  [ W EXCEPT !.m_list =
      [ m_idx \in DOMAIN W.m_list |->
          LET m_ptr == W.m_list[m_idx]
          IN  IF m_ptr.r_idx = 0 THEN m_ptr
              ELSE IF m_ptr.guard = << >> THEN m_ptr
              ELSE IF distance(y, x, m_ptr.fy, m_ptr.fx) > radius THEN m_ptr
              ELSE IF ~r_info[m_ptr.r_idx].SMART
                      /\ ~r_info[m_ptr.r_idx].FRIENDS
              THEN m_ptr
              ELSE IF m_ptr.guard[1].guard_state
                        \in { "PATROL", "GUARD", "SLEEP" }
              THEN [ m_ptr EXCEPT !.guard[1].guard_state = "ALERT",
                                  !.guard[1].alert_y = y,
                                  !.guard[1].alert_x = x ]
              ELSE m_ptr ] ]

(* The i-th member (from 0) of a squad takes the shared ring, starts at    *)
(* its share of the way round and is swapped onto a grid next to that      *)
(* waypoint.                                                               *)
squad_member(W, m_idx_list, i, n, shared, center_y, center_x) ==
  LET m_idx == m_idx_list[i + 1]
      A == alloc_guard_data(W, m_idx)
      cw == (i * n) \div Len(m_idx_list)
      guard == [ Guard(A, m_idx) EXCEPT
                   !.patrol_type = "CIRCUIT",
                   !.num_waypoints = n,
                   !.home_y = center_y,
                   !.home_x = center_x,
                   !.waypoints = [ j \in DOMAIN @ |->
                                     IF j < n THEN shared[j] ELSE @[j] ],
                   !.current_waypoint = cw ]
      G == [ SetGuard(A, m_idx, guard) EXCEPT !.rng = RandSkip(A.rng, 2) ]
      ry == shared[cw].y + rand_int(A.rng, 1, 3) - 1
      rx == shared[cw].x + rand_int(A.rng, 2, 3) - 1
      wy == IF in_bounds(ry, rx) THEN ry ELSE center_y
      wx == IF in_bounds(ry, rx) THEN rx ELSE center_x
  IN  IF cave_floor_bold(G, wy, wx)
      THEN monster_swap(G, G.m_list[m_idx].fy, G.m_list[m_idx].fx, wy, wx)
      ELSE G

RECURSIVE squad_members(_, _, _, _, _, _, _)
squad_members(W, m_idx_list, i, n, shared, center_y, center_x) ==
  IF i >= Len(m_idx_list) THEN W
  ELSE squad_members(squad_member(W, m_idx_list, i, n, shared, center_y,
                                  center_x),
                     m_idx_list, i + 1, n, shared, center_y, center_x)

setup_squad_patrol(W, m_idx_list, center_y, center_x) ==
  LET n == 4 + rand_int(W.rng, 1, 4)
      shared == [ i \in 0 .. n - 1 |->
                    ring_waypoint(W, center_y, center_x, i, n, 2 + 2 * i,
                                  4, 6, 10, 20) ]
  IN  squad_members([ W EXCEPT !.rng = RandSkip(W.rng, 1 + 2 * n) ],
                    m_idx_list, 0, n, shared, center_y, center_x)

(* A step of the simple chase the states share: one grid toward (ty, tx),  *)
(* taken only if that grid is floor.                                       *)
Sign(n) == IF n > 0 THEN 1 ELSE IF n < 0 THEN -1 ELSE 0

step_toward(W, m_idx, ty, tx) ==
  LET m_ptr == W.m_list[m_idx]
      dy == Sign(ty - m_ptr.fy)
      dx == Sign(tx - m_ptr.fx)
  IN  IF cave_floor_bold(W, m_ptr.fy + dy, m_ptr.fx + dx)
      THEN monster_swap(W, m_ptr.fy, m_ptr.fx, m_ptr.fy + dy, m_ptr.fx + dx)
      ELSE W

(* The guard spots the player: CHASE, the player's grid remembered, the    *)
(* timer wound up and the guards around alerted.                           *)
spotted(W, m_idx) ==
  alert_nearby_guards(
    SetGuard(W, m_idx,
      [ Guard(W, m_idx) EXCEPT !.guard_state = "CHASE",
                               !.alert_y = W.py,
                               !.alert_x = W.px,
                               !.chase_timer = GUARD_CHASE_TIMEOUT ]),
    W.m_list[m_idx].fy, W.m_list[m_idx].fx, GUARD_ALERT_RADIUS)

(* What a call hands back: the world, the value returned and the number of *)
(* times the caller's guard_state was given a new value.                   *)
Handled(W, ret, changes) == [ W |-> W, ret |-> ret, changes |-> changes ]

SpottedHandled(W, m_idx) ==
  Handled(spotted(W, m_idx), FALSE,
          IF Guard(spotted(W, m_idx), m_idx).guard_state = "CHASE"
          THEN 1 ELSE 2)

SetState(W, m_idx, state) ==
  SetGuard(W, m_idx, [ Guard(W, m_idx) EXCEPT !.guard_state = state ])

(* The waypoint branch of PATROL: rest on the waypoint and move on when    *)
(* the rest is over, else step toward it.                                  *)
waypoint_patrol(W, m_idx) ==
  LET guard == Guard(W, m_idx)
      m_ptr == W.m_list[m_idx]
      cw == guard.current_waypoint
      wp == guard.waypoints[cw]
  IN  IF m_ptr.fy = wp.y /\ m_ptr.fx = wp.x
      THEN IF wp.wait_turns - 1 <= 0
           THEN advance_patrol_waypoint(
                  [ SetGuard(W, m_idx,
                      [ guard EXCEPT !.waypoints[cw].wait_turns =
                          5 + rand_int(W.rng, 1, PATROL_REST_TURNS) ])
                    EXCEPT !.rng = RandSkip(W.rng, 1) ],
                  m_idx)
           ELSE SetGuard(W, m_idx,
                  [ guard EXCEPT !.waypoints[cw].wait_turns = @ - 1 ])
      ELSE step_toward(W, m_idx, wp.y, wp.x)

(* The branch of PATROL without waypoints: three times in ten a step to a  *)
(* random neighbouring grid, if it is floor.                               *)
random_patrol(W, m_idx) ==
  LET m_ptr == W.m_list[m_idx]
      dy == rand_int(W.rng, 2, 3) - 1
      dx == rand_int(W.rng, 3, 3) - 1
      D == [ W EXCEPT !.rng = RandSkip(W.rng, 3) ]
  IN  IF rand_int(W.rng, 1, 100) < 30
      THEN IF cave_floor_bold(W, m_ptr.fy + dy, m_ptr.fx + dx)
           THEN monster_swap(D, m_ptr.fy, m_ptr.fx, m_ptr.fy + dy,
                             m_ptr.fx + dx)
           ELSE D
      ELSE [ W EXCEPT !.rng = RandSkip(W.rng, 1) ]

(* The grid a returning guard makes for. *)
return_target(guard) ==
  IF guard.patrol_type = "STATIONARY" THEN << guard.home_y, guard.home_x >>
  ELSE IF guard.num_waypoints > 0
  THEN << guard.waypoints[guard.current_waypoint].y,
          guard.waypoints[guard.current_waypoint].x >>
  ELSE << guard.home_y, guard.home_x >>

(* los is player_has_los_bold(m_ptr->fy, m_ptr->fx), the view flag that    *)
(* update_view keeps on the monster's grid.                                *)
execute_patrol_behavior(W, m_idx, los) ==
  LET m_ptr == W.m_list[m_idx]
      r_ptr == r_info[m_ptr.r_idx]
  IN  IF m_ptr.guard = << >> THEN Handled(W, FALSE, 0)
      ELSE
      LET guard == Guard(W, m_idx)
      IN  CASE guard.guard_state = "SLEEP" ->
                 IF los /\ skill_stl
                             + get_stealth_bonus_from_cover(W, W.py, W.px)
                           < r_ptr.aaf
                 THEN SpottedHandled(W, m_idx)
                 ELSE Handled(W, TRUE, 0)
            [] guard.guard_state = "GUARD" ->
                 IF los THEN SpottedHandled(W, m_idx)
                 ELSE Handled(W, TRUE, 0)
            [] guard.guard_state = "ALERT" ->
                 IF m_ptr.fy = guard.alert_y /\ m_ptr.fx = guard.alert_x
                 THEN Handled(SetState(W, m_idx, "RETURN"), TRUE, 1)
                 ELSE IF los
                 THEN Handled(
                        SetGuard(W, m_idx,
                          [ guard EXCEPT
                              !.guard_state = "CHASE",
                              !.chase_timer = GUARD_CHASE_TIMEOUT ]),
                        FALSE, 1)
                 ELSE Handled(step_toward(W, m_idx, guard.alert_y,
                                          guard.alert_x),
                              TRUE, 0)
            [] guard.guard_state = "CHASE" ->
                 IF los
                 THEN Handled(
                        SetGuard(W, m_idx,
                          [ guard EXCEPT
                              !.alert_y = W.py,
                              !.alert_x = W.px,
                              !.chase_timer = GUARD_CHASE_TIMEOUT ]),
                        FALSE, 0)
                 ELSE IF /\ m_ptr.fy = guard.alert_y
                         /\ m_ptr.fx = guard.alert_x
                         /\ guard.chase_timer - 1 <= 0
                 THEN Handled(
                        SetGuard(W, m_idx,
                          [ guard EXCEPT !.chase_timer = @ - 1,
                                         !.guard_state = "RETURN" ]),
                        TRUE, 1)
                 ELSE Handled(
                        SetGuard(W, m_idx,
                          [ guard EXCEPT !.chase_timer = @ - 1 ]),
                        FALSE, 0)
            [] guard.guard_state = "RETURN" ->
                 IF << m_ptr.fy, m_ptr.fx >> = return_target(guard)
                 THEN Handled(
                        SetState(W, m_idx,
                                 IF guard.patrol_type = "STATIONARY"
                                 THEN "GUARD" ELSE "PATROL"),
                        TRUE, 1)
                 ELSE Handled(step_toward(W, m_idx, return_target(guard)[1],
                                          return_target(guard)[2]),
                              TRUE, 0)
            [] guard.guard_state = "PATROL" ->
                 IF los THEN SpottedHandled(W, m_idx)
                 ELSE IF guard.num_waypoints = 0
                 THEN Handled(random_patrol(W, m_idx), TRUE, 0)
                 ELSE Handled(waypoint_patrol(W, m_idx), TRUE, 0)

(***************************************************************************)
(* The patrol engine at work on a lit hall: permanent rock around floor,   *)
(* a tree, and possibly a block of wall east of the first monster.  Two    *)
(* monsters have just been placed; the room builders of generate.c give    *)
(* them their guard records and the game then ticks them.                  *)
(***************************************************************************)
MaxPatCalls == 4      \* calls of the patrol engine in one behaviour

PatrolBlock == << 6, 12 >>
PatrolTree == << 5, 9 >>

PatrolLayout(block) ==
  [ c \in Cells |->
      IF c \in Ring THEN FEAT.PERM_SOLID
      ELSE IF c = PatrolTree THEN FEAT.TREES
      ELSE IF block /\ c = PatrolBlock THEN FEAT.WALL_INNER
      ELSE FEAT.FLOOR ]

Monster(r_idx, fy, fx, hp, maxhp) ==
  [ r_idx |-> r_idx, fy |-> fy, fx |-> fx, hp |-> hp, maxhp |-> maxhp,
    guard |-> << >> ]

PatrolSeeds == { 1, 700 }
PostTypes == { "DOOR", "HIGHGROUND", "TREASURE", "ROOM" }
PatrolTypes == { "CIRCUIT", "BACKFORTH", "RANDOM", "STATIONARY" }
AlertPoints == { << 6, 10 >>, << 4, 12 >> }
SquadCenters == { << 6, 10 >>, << 3, 4 >> }

World ==
  [ feat |-> cave_feat, cover |-> cave_cover, m_list |-> m_list,
    py |-> p_ptr.py, px |-> p_ptr.px, rng |-> rng ]

InitPatrolWorld ==
  /\ cave_cover = init_cover_system
  /\ cov = [ calls |-> 0, last |-> NoCall ]
  /\ cave_info = [ c \in Cells |-> {} ]
  /\ p_ptr = [ depth |-> 1, inside_special |-> "NONE", which_quest |-> 0,
               py |-> 9, px |-> 16, placed |-> TRUE, wild_x |-> 0,
               wild_y |-> 0, wilderness_depth |-> 0, which_town |-> 2,
               which_arena_layout |-> 3, store_vault |-> 3 ]
  /\ gen = [ pc |-> "idle", num |-> 0, why |-> "", seed_dungeon |-> 0,
             visit |-> 0, allow_open_levels |-> FALSE,
             run |-> [ p |-> << >>, auto_scum |-> FALSE, seed_wild |-> 0,
                       daytime |-> FALSE ] ]
  /\ dun = NoDun
  /\ prev = << >>
  /\ pursuit = [ pursuit_r_idx |-> 0, pursuit_hp |-> 0, pursuit_maxhp |-> 0 ]
  /\ rle = [ buf_pos |-> 0 ]
  /\ wild = [ pc |-> "idle" ]
  /\ InitProbeIdle

NoPatCall ==
  [ op |-> "none", m_idx |-> 0, y |-> -1, x |-> -1, radius |-> 0,
    los |-> FALSE, ret |-> FALSE, changes |-> 0, guards |-> {} ]

InitPatrol ==
  /\ InitPatrolWorld
  /\ cave_feat \in { PatrolLayout(block) : block \in BOOLEAN }
  /\ \E r1 \in { 1, 3 }, r2 \in { 2, 3 }, seed \in PatrolSeeds :
       /\ m_list = << Monster(r1, 6, 10, 8, 10), Monster(r2, 4, 11, 5, 5) >>
       /\ rng = [ Rand_quick |-> FALSE, Rand_value |-> 0,
                  Rand_state |-> seed ]
  /\ pat = [ calls |-> 0, last |-> NoPatCall ]

PatrolReturned(W, last) ==
  /\ m_list' = W.m_list
  /\ p_ptr' = [ p_ptr EXCEPT !.py = W.py, !.px = W.px ]
  /\ rng' = W.rng
  /\ pat' = [ calls |-> pat.calls + 1, last |-> last ]
  /\ UNCHANGED << cave_feat, cave_info, cave_cover, cov, gen, dun, prev,
                  pursuit, rle, wild,
                  probeVars >>

Fresh(m_idx) == m_list[m_idx].r_idx # 0 /\ m_list[m_idx].guard = << >>

(* place_guard: the monster just placed on (y, x) takes a post there. *)
PlaceGuard ==
  \E m_idx \in DOMAIN m_list, guard_type \in PostTypes :
    /\ pat.calls < MaxPatCalls
    /\ Fresh(m_idx)
    /\ PatrolReturned(
         setup_guard_post(World, m_idx, guard_type, m_list[m_idx].fy,
                          m_list[m_idx].fx),
         [ NoPatCall EXCEPT !.op = "setup_guard_post", !.m_idx = m_idx,
                            !.guards = { m_idx },
                            !.y = m_list[m_idx].fy,
                            !.x = m_list[m_idx].fx ])

(* place_patrol: the monster just placed is given a route. *)
PlacePatrol ==
  \E m_idx \in DOMAIN m_list, patrol_type \in PatrolTypes :
    /\ pat.calls < MaxPatCalls
    /\ Fresh(m_idx)
    /\ PatrolReturned(
         setup_monster_patrol(World, m_idx, patrol_type),
         [ NoPatCall EXCEPT !.op = "setup_monster_patrol",
                            !.m_idx = m_idx, !.guards = { m_idx } ])

(* build_type18: an ambusher sleeps at home in the tall grass. *)
PlaceAmbusher ==
  \E m_idx \in DOMAIN m_list :
    /\ pat.calls < MaxPatCalls
    /\ Fresh(m_idx)
    /\ PatrolReturned(
         SetGuard(World, m_idx,
           [ NewGuard EXCEPT !.guard_state = "SLEEP",
                             !.patrol_type = "STATIONARY",
                             !.home_y = m_list[m_idx].fy,
                             !.home_x = m_list[m_idx].fx ]),
         [ NoPatCall EXCEPT !.op = "build_type18", !.m_idx = m_idx ])

SetupSquadPatrol ==
  \E m_idx_list \in { << 1 >>, << 1, 2 >> }, c \in SquadCenters :
    /\ pat.calls < MaxPatCalls
    /\ \A i \in DOMAIN m_idx_list : Fresh(m_idx_list[i])
    /\ PatrolReturned(
         setup_squad_patrol(World, m_idx_list, c[1], c[2]),
         [ NoPatCall EXCEPT !.op = "setup_squad_patrol",
                            !.m_idx = m_idx_list[1],
                            !.guards = { m_idx_list[i] :
                                           i \in DOMAIN m_idx_list },
                            !.y = c[1], !.x = c[2] ])

AlertNearbyGuards ==
  \E c \in AlertPoints, radius \in { 1, GUARD_ALERT_RADIUS } :
    /\ pat.calls < MaxPatCalls
    /\ PatrolReturned(
         alert_nearby_guards(World, c[1], c[2], radius),
         [ NoPatCall EXCEPT !.op = "alert_nearby_guards",
                            !.y = c[1], !.x = c[2], !.radius = radius ])

ExecutePatrolBehavior ==
  \E m_idx \in DOMAIN m_list, los \in BOOLEAN :
    /\ pat.calls < MaxPatCalls
    /\ m_list[m_idx].r_idx # 0
    /\ \E o \in { execute_patrol_behavior(World, m_idx, los) } :
         PatrolReturned(
           o.W,
           [ NoPatCall EXCEPT !.op = "execute_patrol_behavior",
                              !.m_idx = m_idx, !.los = los, !.ret = o.ret,
                              !.changes = o.changes ])

NextPatrol ==
  \/ PlaceGuard
  \/ PlacePatrol
  \/ PlaceAmbusher
  \/ SetupSquadPatrol
  \/ AlertNearbyGuards
  \/ ExecutePatrolBehavior

SpecPatrol == InitPatrol /\ [][NextPatrol]_vars

(***************************************************************************)
(* A CIRCUIT guard of four waypoints walking its round unseen: the world   *)
(* is the hall as place_patrol leaves it, and every step is one call of    *)
(* execute_patrol_behavior for the guard with the player out of sight.     *)
(* pat.seen collects the waypoints the guard has stood on.                 *)
(***************************************************************************)
CircuitSeeds == 1 .. 40

(* The largest rest among the first n waypoints of a record. *)
rest_max(guard) ==
  CHOOSE r \in { guard.waypoints[i].wait_turns :
                   i \in 0 .. guard.num_waypoints - 1 } :
    \A i \in 0 .. guard.num_waypoints - 1 :
      guard.waypoints[i].wait_turns <= r

MaxTicks == 4 * (5 + 5 + PATROL_REST_TURNS)

StoodOn(ml, m_idx) ==
  { i \in 0 .. ml[m_idx].guard[1].num_waypoints - 1 :
      /\ ml[m_idx].guard[1].waypoints[i].y = ml[m_idx].fy
      /\ ml[m_idx].guard[1].waypoints[i].x = ml[m_idx].fx }

InitCircuit ==
  /\ InitPatrolWorld
  /\ cave_feat \in { PatrolLayout(block) : block \in BOOLEAN }
  /\ \E seed \in CircuitSeeds :
       \E W \in { setup_monster_patrol(
                    [ feat |-> cave_feat, cover |-> cave_cover,
                      m_list |-> << Monster(1, 6, 10, 8, 10) >>,
                      py |-> p_ptr.py, px |-> p_ptr.px,
                      rng |-> [ Rand_quick |-> FALSE, Rand_value |-> 0,
                                Rand_state |-> seed ] ],
                    1, "CIRCUIT") } :
         /\ Guard(W, 1).num_waypoints = 4
         /\ m_list = W.m_list
         /\ rng = W.rng
         /\ pat = [ calls |-> 0, last |-> NoPatCall,
                    seen |-> StoodOn(W.m_list, 1),
                    rest_max |-> rest_max(Guard(W, 1)) ]

TickCircuit ==
  /\ pat.calls < MaxTicks
  /\ \E o \in { execute_patrol_behavior(World, 1, FALSE) } :
       /\ m_list' = o.W.m_list
       /\ p_ptr' = [ p_ptr EXCEPT !.py = o.W.py, !.px = o.W.px ]
       /\ rng' = o.W.rng
       /\ pat' = [ pat EXCEPT
                     !.calls = @ + 1,
                     !.last = [ NoPatCall EXCEPT
                                  !.op = "execute_patrol_behavior",
                                  !.m_idx = 1, !.ret = o.ret,
                                  !.changes = o.changes ],
                     !.seen = @ \cup StoodOn(o.W.m_list, 1) ]
       /\ UNCHANGED << cave_feat, cave_info, cave_cover, cov, gen, dun, prev,
                       pursuit, rle, wild,
                  probeVars >>

NextCircuit == TickCircuit

SpecCircuit == InitCircuit /\ [][NextCircuit]_vars

(***************************************************************************)
(* Properties of the patrol engine.                                        *)
(***************************************************************************)
TransitionTable ==
  { << "SLEEP", "SLEEP" >>, << "SLEEP", "CHASE" >>,
    << "GUARD", "GUARD" >>, << "GUARD", "CHASE" >>,
    << "ALERT", "ALERT" >>, << "ALERT", "RETURN" >>, << "ALERT", "CHASE" >>,
    << "CHASE", "CHASE" >>, << "CHASE", "RETURN" >>,
    << "RETURN", "RETURN" >>, << "RETURN", "GUARD" >>,
    << "RETURN", "PATROL" >>,
    << "PATROL", "PATROL" >>, << "PATROL", "CHASE" >> }

(* The step is a call of execute_patrol_behavior for a monster that has a  *)
(* guard record.                                                           *)
GuardTicked ==
  /\ pat'.calls = pat.calls + 1
  /\ pat'.last.op = "execute_patrol_behavior"
  /\ m_list[pat'.last.m_idx].guard # << >>

(* C13: one call of execute_patrol_behavior gives the calling monster's    *)
(* guard_state a new value at most once, and the states before and after   *)
(* the call are a row of the transition table.                             *)
PatrolTransitionsInTable ==
  [][ GuardTicked =>
        /\ pat'.last.changes <= 1
        /\ << m_list[pat'.last.m_idx].guard[1].guard_state,
              m_list'[pat'.last.m_idx].guard[1].guard_state >>
             \in TransitionTable ]_vars

(* A guard has just spotted the player and gone to CHASE, and the call     *)
(* alerted another guard to the spot the caller stands on.                 *)
GuardRaisedTheAlarm ==
  /\ pat.last.op = "execute_patrol_behavior"
  /\ pat.last.changes = 1
  /\ m_list[pat.last.m_idx].guard[1].guard_state = "CHASE"
  /\ \E i \in DOMAIN m_list :
       /\ i # pat.last.m_idx
       /\ m_list[i].guard # << >>
       /\ m_list[i].guard[1].guard_state = "ALERT"
       /\ m_list[i].guard[1].alert_y = m_list[pat.last.m_idx].fy
       /\ m_list[i].guard[1].alert_x = m_list[pat.last.m_idx].fx

(* C14: a guard in CHASE that is ticked without line of sight to the       *)
(* player and with chase_timer at or below 0 is in RETURN after the tick,  *)
(* wherever it stands.                                                     *)
ChaseTimeoutReturns ==
  [][ ( /\ GuardTicked
        /\ m_list[pat'.last.m_idx].guard[1].guard_state = "CHASE"
        /\ ~pat'.last.los
        /\ m_list[pat'.last.m_idx].guard[1].chase_timer <= 0 )
      => m_list'[pat'.last.m_idx].guard[1].guard_state = "RETURN" ]_vars

(* C15: alert_nearby_guards(y, x, radius) puts every guard within          *)
(* Chebyshev distance radius of (y, x) that is SMART or FRIENDS and in     *)
(* SLEEP, GUARD or PATROL into ALERT with alert position (y, x), and       *)
(* leaves the state and alert position of every other guard as they were. *)
Chebyshev(y1, x1, y2, x2) ==
  IF Abs(y1 - y2) > Abs(x1 - x2) THEN Abs(y1 - y2) ELSE Abs(x1 - x2)

WaypointsOnFloorOrHome ==
  pat.last.op \in { "setup_monster_patrol", "setup_guard_post",
                    "setup_squad_patrol" }
  => \A m \in pat.last.guards :
       \A i \in 0 .. m_list[m].guard[1].num_waypoints - 1 :
         /\ in_bounds(m_list[m].guard[1].waypoints[i].y,
                      m_list[m].guard[1].waypoints[i].x)
         /\ \/ cave_floor_bold(World, m_list[m].guard[1].waypoints[i].y,
                               m_list[m].guard[1].waypoints[i].x)
            \/ << m_list[m].guard[1].waypoints[i].y,
                  m_list[m].guard[1].waypoints[i].x >>
                 = << m_list[m].guard[1].home_y, m_list[m].guard[1].home_x >>

(* A route has just been laid out with one waypoint that fell back to home *)
(* and another out on the floor.                                           *)
RouteFellBackToHome ==
  /\ pat.last.op \in { "setup_monster_patrol", "setup_squad_patrol" }
  /\ \E m \in pat.last.guards :
       /\ m_list[m].guard[1].num_waypoints >= 4
       /\ \E i, j \in 0 .. m_list[m].guard[1].num_waypoints - 1 :
            /\ << m_list[m].guard[1].waypoints[i].y,
                  m_list[m].guard[1].waypoints[i].x >>
                 = << m_list[m].guard[1].home_y, m_list[m].guard[1].home_x >>
            /\ << m_list[m].guard[1].waypoints[j].y,
                  m_list[m].guard[1].waypoints[j].x >>
                 # << m_list[m].guard[1].home_y, m_list[m].guard[1].home_x >>

(* C17: a CIRCUIT guard of 4 waypoints that starts at home and never sees  *)
(* the player has stood on each waypoint once 4 * (5 + rest_max) calls     *)
(* have been made, and its current_waypoint stays in 0 .. 3.               *)
CircuitVisitsAll ==
  /\ m_list[1].guard[1].current_waypoint \in 0 .. 3
  /\ pat.calls >= 4 * (5 + pat.rest_max) => pat.seen = 0 .. 3

(***************************************************************************)
(* pursuit.c: a monster that stood next to the player on the stairs is     *)
(* latched and put down again near the player on the next level.  The      *)
(* operators work on a world W as those of patrol.c do, extended by W.s,   *)
(* the statics pursuit_r_idx, pursuit_hp and pursuit_maxhp.                *)
(***************************************************************************)

(* cave_m_idx[y][x]: the monster on the grid, negative for the player. *)
cave_m_idx(W, y, x) ==
  IF \E i \in DOMAIN W.m_list :
       W.m_list[i].r_idx # 0 /\ << W.m_list[i].fy, W.m_list[i].fx >> = << y, x >>
  THEN CHOOSE i \in DOMAIN W.m_list :
         W.m_list[i].r_idx # 0
           /\ << W.m_list[i].fy, W.m_list[i].fx >> = << y, x >>
  ELSE IF << W.py, W.px >> = << y, x >> THEN -1
  ELSE 0

cave_empty_bold(W, y, x) ==
  cave_floor_bold(W, y, x) /\ cave_m_idx(W, y, x) = 0

(* The directions d of 0 .. 7 whose grid holds a SMART or FRIENDS monster. *)
followers(W) ==
  { d \in 0 .. 7 :
      /\ in_bounds(W.py + ddy_ddd[d + 1], W.px + ddx_ddd[d + 1])
      /\ cave_m_idx(W, W.py + ddy_ddd[d + 1], W.px + ddx_ddd[d + 1]) > 0
      /\ \E r \in { W.m_list[cave_m_idx(W, W.py + ddy_ddd[d + 1],
                                        W.px + ddx_ddd[d + 1])].r_idx } :
           r_info[r].SMART \/ r_info[r].FRIENDS }

prepare_staircase_pursuit(W) ==
  IF followers(W) = {}
  THEN [ W EXCEPT !.s.pursuit_r_idx = 0 ]
  ELSE LET d == CHOOSE e \in followers(W) : \A f \in followers(W) : e <= f
           m_ptr == W.m_list[cave_m_idx(W, W.py + ddy_ddd[d + 1],
                                        W.px + ddx_ddd[d + 1])]
       IN  [ W EXCEPT !.s = [ pursuit_r_idx |-> m_ptr.r_idx,
                              pursuit_hp |-> m_ptr.hp,
                              pursuit_maxhp |-> m_ptr.maxhp ] ]

(* scatter() of cave.c with m = 0 hands back some grid of the map within   *)
(* distance d of (y, x), the grid (y, x) itself included.                  *)
cave_scatter(y, x, d) ==
  { c \in Cells : distance(y, x, c[1], c[2]) <= d }

(* The hit points a monster of the race is born with (monster2.c). *)
BornHp == 12

(* place_monster_aux() (monster2.c) either fails or puts a new monster of  *)
(* the race on the grid.                                                   *)
place_monster_aux(W, y, x, r_idx) ==
  { [ ok |-> FALSE, W |-> W ],
    [ ok |-> TRUE,
      W |-> [ W EXCEPT !.m_list =
                Append(@, Monster(r_idx, y, x, BornHp, BornHp)) ] ] }

(* Where the loop of execute_staircase_pursuit can end when it is about to *)
(* try distance d: on each try scatter offers a grid, and the first empty  *)
(* one closes the loop whether or not the monster could be placed there.   *)
RECURSIVE pursuit_tries(_, _)
pursuit_tries(W, d) ==
  IF d >= 10 THEN { [ W |-> W, y |-> -1, x |-> -1, d |-> d ] }
  ELSE UNION
         { { [ W |-> IF o.ok /\ cave_m_idx(o.W, c[1], c[2]) > 0
                     THEN [ o.W EXCEPT
                              !.m_list[cave_m_idx(o.W, c[1], c[2])].hp =
                                W.s.pursuit_hp,
                              !.m_list[cave_m_idx(o.W, c[1], c[2])].maxhp =
                                W.s.pursuit_maxhp ]
                     ELSE o.W,
               y |-> c[1], x |-> c[2], d |-> d ] :
               o \in place_monster_aux(W, c[1], c[2], W.s.pursuit_r_idx) } :
           c \in { e \in cave_scatter(W.py, W.px, d) :
                     cave_empty_bold(W, e[1], e[2]) } }
       \cup
       ( IF \E e \in cave_scatter(W.py, W.px, d) :
              ~cave_empty_bold(W, e[1], e[2])
         THEN pursuit_tries(W, d + 1)
         ELSE {} )

execute_staircase_pursuit(W) ==
  IF W.s.pursuit_r_idx > 0
  THEN { [ t EXCEPT !.W.s.pursuit_r_idx = 0 ] : t \in pursuit_tries(W, 1) }
  ELSE { [ W |-> W, y |-> -1, x |-> -1, d |-> 0 ] }

(***************************************************************************)
(* The pursuit at work: the player stands on a staircase of the hall with  *)
(* two monsters about, takes the stairs, and generate_cave ends the next   *)
(* level with execute_staircase_pursuit.  pursuit.pc is the point reached, *)
(* pursuit.latched what prepare_staircase_pursuit latched, pursuit.born    *)
(* the number of monsters the new level had before the pursuer came.       *)
(***************************************************************************)
StairSpot == << 6, 10 >>
ArrivalSpots == { << 6, 11 >>, << 1, 1 >> }
PursuerSpots == { << 6, 11 >>, << 3, 3 >> }

PursuitWorld ==
  [ feat |-> cave_feat, cover |-> cave_cover, m_list |-> m_list,
    py |-> p_ptr.py, px |-> p_ptr.px, rng |-> rng,
    s |-> [ pursuit_r_idx |-> pursuit.pursuit_r_idx,
            pursuit_hp |-> pursuit.pursuit_hp,
            pursuit_maxhp |-> pursuit.pursuit_maxhp ] ]

InitPursuit ==
  /\ cave_cover = init_cover_system
  /\ cov = [ calls |-> 0, last |-> NoCall ]
  /\ cave_info = [ c \in Cells |-> {} ]
  /\ gen = [ pc |-> "idle", num |-> 0, why |-> "", seed_dungeon |-> 0,
             visit |-> 0, allow_open_levels |-> FALSE,
             run |-> [ p |-> << >>, auto_scum |-> FALSE, seed_wild |-> 0,
                       daytime |-> FALSE ] ]
  /\ dun = NoDun
  /\ prev = << >>
  /\ rng = [ Rand_quick |-> FALSE, Rand_value |-> 0, Rand_state |-> 1 ]
  /\ pat = [ calls |-> 0 ]
  /\ rle = [ buf_pos |-> 0 ]
  /\ wild = [ pc |-> "idle" ]
  /\ InitProbeIdle
  /\ cave_feat \in { PatrolLayout(block) : block \in BOOLEAN }
  /\ p_ptr = [ depth |-> 1, inside_special |-> "NONE", which_quest |-> 0,
               py |-> StairSpot[1], px |-> StairSpot[2], placed |-> TRUE,
               wild_x |-> 0, wild_y |-> 0, wilderness_depth |-> 0,
               which_town |-> 2, which_arena_layout |-> 3,
               store_vault |-> 3 ]
  /\ \E r1 \in DOMAIN r_info, r2 \in { 2, 3 }, hp \in { 3, 10 },
        c \in PursuerSpots :
       m_list = << Monster(r1, c[1], c[2], hp, 10),
                   Monster(r2, 7, 10, 4, 6) >>
  /\ pursuit = [ pursuit_r_idx |-> 0, pursuit_hp |-> 0, pursuit_maxhp |-> 0,
                 pc |-> "stairs", latched |-> 0, born |-> 0,
                 y |-> -1, x |-> -1 ]

PrepareStaircasePursuit ==
  /\ pursuit.pc = "stairs"
  /\ \E W \in { prepare_staircase_pursuit(PursuitWorld) } :
       pursuit' = [ pursuit EXCEPT
                      !.pursuit_r_idx = W.s.pursuit_r_idx,
                      !.pursuit_hp = W.s.pursuit_hp,
                      !.pursuit_maxhp = W.s.pursuit_maxhp,
                      !.pc = "latched",
                      !.latched = W.s.pursuit_r_idx ]
  /\ UNCHANGED << cave_feat, cave_info, cave_cover, cov, genVars, m_list,
                  pat, rle, wild,
                  probeVars >>

(* The end of generate_cave: the new level stands, with the player on his  *)
(* spot and perhaps a monster of the level beside him, and the pursuit is  *)
(* carried out.                                                            *)
ExecuteStaircasePursuit ==
  /\ pursuit.pc = "latched"
  /\ \E spot \in ArrivalSpots, dwellers \in 0 .. 1 :
       \E t \in execute_staircase_pursuit(
                  [ PursuitWorld EXCEPT
                      !.py = spot[1], !.px = spot[2],
                      !.m_list = IF dwellers = 0 THEN << >>
                                 ELSE << Monster(3, spot[1] + 1, spot[2], 7,
                                                 7) >> ]) :
         /\ m_list' = t.W.m_list
         /\ p_ptr' = [ p_ptr EXCEPT !.py = spot[1], !.px = spot[2] ]
         /\ pursuit' = [ pursuit EXCEPT
                           !.pursuit_r_idx = t.W.s.pursuit_r_idx,
                           !.pc = "done", !.born = dwellers,
                           !.y = t.y, !.x = t.x ]
  /\ UNCHANGED << cave_feat, cave_info, cave_cover, cov, rng, gen, dun, prev,
                  pat, rle, wild,
                  probeVars >>

NextPursuit ==
  \/ PrepareStaircasePursuit
  \/ ExecuteStaircasePursuit

SpecPursuit == InitPursuit /\ [][NextPursuit]_vars

(***************************************************************************)
(* Properties of the pursuit.                                              *)
(***************************************************************************)

(* C18: when prepare_staircase_pursuit latched a smart or pack monster     *)
(* next to the player, execute_staircase_pursuit puts exactly one monster  *)
(* of the latched race on the new level, on a grid adjacent to the player, *)
(* with the hp and maxhp latched at the stairs.                            *)
PursuerRespawnsAdjacent ==
  ( pursuit.pc = "done" /\ pursuit.latched > 0 )
  => /\ Len(m_list) = pursuit.born + 1
     /\ m_list[Len(m_list)].r_idx = pursuit.latched
     /\ distance(p_ptr.py, p_ptr.px, m_list[Len(m_list)].fy,
                 m_list[Len(m_list)].fx) = 1
     /\ m_list[Len(m_list)].hp = pursuit.pursuit_hp
     /\ m_list[Len(m_list)].maxhp = pursuit.pursuit_maxhp

(***************************************************************************)
(* repro_rle.c: the run-length writer of the savefile's cave_info layer,   *)
(* on the 10 x 10 grid of the test program.  rle.cave_info is its grid,    *)
(* rle.buffer the bytes written, rle.buf_pos their number.                 *)
(***************************************************************************)
RLE_DUNGEON_HGT == 10
RLE_DUNGEON_WID == 10
MAX_UCHAR == 255
RleBufferSize == 1024

(* byte arithmetic *)
Byte(n) == n % 256

wr_byte(S, v) ==
  IF S.buf_pos < RleBufferSize
  THEN [ S EXCEPT !.buffer = Append(@, v), !.buf_pos = @ + 1 ]
  ELSE S

(* The body of the scan for one grid holding tmp8u. *)
rle_step(S, tmp8u) ==
  IF tmp8u # S.prev_char \/ S.count = MAX_UCHAR
  THEN [ ( IF S.count # 0
           THEN wr_byte(wr_byte(S, S.count), S.prev_char)
           ELSE S )
         EXCEPT !.prev_char = tmp8u, !.count = 1 ]
  ELSE [ S EXCEPT !.count = Byte(@ + 1) ]

(* The scan of the k grids from grid n on, in row-major order. *)
RECURSIVE rle_walk(_, _, _, _)
rle_walk(S, info, n, k) ==
  IF k <= 0 THEN S
  ELSE IF k = 1
  THEN rle_step(S, info[<< n \div RLE_DUNGEON_WID, n % RLE_DUNGEON_WID >>])
  ELSE Only({ rle_walk(v, info, n + (k \div 2), k - (k \div 2)) :
                v \in { rle_walk(S, info, n, k \div 2) } })

(* wr_dungeon_sim without the flush at the end of the scan. *)
wr_dungeon_sim_no_flush(info, fix) ==
  rle_walk([ count |-> 0, prev_char |-> 0, buffer |-> << >>, buf_pos |-> 0 ],
           info, 0, RLE_DUNGEON_HGT * RLE_DUNGEON_WID)

wr_dungeon_sim(info, fix) ==
  LET S == rle_walk([ count |-> 0, prev_char |-> 0, buffer |-> << >>,
                      buf_pos |-> 0 ],
                    info, 0, RLE_DUNGEON_HGT * RLE_DUNGEON_WID)
  IN  IF fix # 0 /\ S.count # 0
      THEN wr_byte(wr_byte(S, S.count), S.prev_char)
      ELSE S

(* The grids the writer is run on: up to three bands of one value each in  *)
(* row-major order, cut at a and b, or two values alternating from grid    *)
(* to grid; the all-zero grid and the two-band grid of main are among      *)
(* them.                                                                   *)
RleCuts == { 0, 1, 50, 99, 100 }
RleValues == { 0, 1, 255 }

RleGrid(a, b, v, striped) ==
  [ c \in (0 .. RLE_DUNGEON_HGT - 1) \X (0 .. RLE_DUNGEON_WID - 1) |->
      IF striped
      THEN v[1 + ((c[1] * RLE_DUNGEON_WID + c[2]) % 2)]
      ELSE IF c[1] * RLE_DUNGEON_WID + c[2] < a THEN v[1]
      ELSE IF c[1] * RLE_DUNGEON_WID + c[2] < b THEN v[2]
      ELSE v[3] ]

InitRle ==
  /\ cave_feat = [ c \in Cells |-> FEAT.NONE ]
  /\ cave_cover = init_cover_system
  /\ cov = [ calls |-> 0, last |-> NoCall ]
  /\ InitGenIdle
  /\ m_list = << >>
  /\ pat = [ calls |-> 0 ]
  /\ pursuit = [ pursuit_r_idx |-> 0, pursuit_hp |-> 0, pursuit_maxhp |-> 0 ]
  /\ wild = [ pc |-> "idle" ]
  /\ InitProbeIdle
  /\ \E a \in RleCuts, b \in RleCuts, v \in RleValues \X RleValues \X RleValues,
        striped \in BOOLEAN :
       /\ a <= b
       /\ rle = [ cave_info |-> RleGrid(a, b, v, striped), buffer |-> << >>,
                  buf_pos |-> 0, fix |-> 0, pc |-> "ready" ]

WrDungeonSim ==
  /\ rle.pc = "ready"
  /\ \E fix \in { 0, 1 } :
       \E S \in { wr_dungeon_sim(rle.cave_info, fix) } :
         rle' = [ rle EXCEPT !.buffer = S.buffer, !.buf_pos = S.buf_pos,
                             !.fix = fix, !.pc = "done" ]
  /\ UNCHANGED << cave_feat, cave_info, cave_cover, cov, genVars, m_list,
                  pat, pursuit, wild,
                  probeVars >>

NextRle == WrDungeonSim

SpecRle == InitRle /\ [][NextRle]_vars

(***************************************************************************)
(* Properties of the run-length writer.                                    *)
(***************************************************************************)

(* The grids of the writer's map in row-major order. *)
RowMajor(info) ==
  [ n \in 1 .. RLE_DUNGEON_HGT * RLE_DUNGEON_WID |->
      info[<< (n - 1) \div RLE_DUNGEON_WID, (n - 1) % RLE_DUNGEON_WID >>] ]

(* What a reader makes of the bytes: each (count, value) pair stands for   *)
(* count grids of value.                                                   *)
RECURSIVE ExpandPairs(_, _, _)
ExpandPairs(bytes, lo, hi) ==
  IF lo > hi THEN << >>
  ELSE IF lo = hi
  THEN [ i \in 1 .. bytes[2 * lo - 1] |-> bytes[2 * lo] ]
  ELSE ExpandPairs(bytes, lo, (lo + hi) \div 2)
         \o ExpandPairs(bytes, ((lo + hi) \div 2) + 1, hi)

Expand(bytes) == ExpandPairs(bytes, 1, Len(bytes) \div 2)

(* C19: with the flush at the end of the scan the writer emits (count,     *)
(* value) pairs with counts in 1 .. 255 whose expansion, in order, is the  *)
(* grid in row-major order; the all-zero grid gives the one pair (100, 0). *)
RleFlushKeepsEveryRun ==
  ( rle.pc = "done" /\ rle.fix = 1 )
  => /\ rle.buf_pos = Len(rle.buffer)
     /\ rle.buf_pos % 2 = 0
     /\ \A i \in 1 .. rle.buf_pos :
          i % 2 = 1 => rle.buffer[i] \in 1 .. 255
     /\ Expand(rle.buffer) = RowMajor(rle.cave_info)
     /\ ( \A c \in DOMAIN rle.cave_info : rle.cave_info[c] = 0 )
          => rle.buffer = << RLE_DUNGEON_HGT * RLE_DUNGEON_WID, 0 >>

(* The writer has flushed a grid of several runs whose last run is longer  *)
(* than one grid.                                                          *)
RleWroteSeveralRuns ==
  /\ rle.pc = "done"
  /\ rle.fix = 1
  /\ rle.buf_pos >= 4
  /\ rle.buffer[rle.buf_pos - 1] > 1

(***************************************************************************)
(* Two wilderness tiles side by side: terrain_gen's fractal and its        *)
(* terrain table are run for the tile (wild_x, wild_y) and for its eastern *)
(* neighbour under one wilderness seed, and the columns that meet at the   *)
(* seam are kept: wild.west is the right-most generated column of the      *)
(* first tile, wild.east the left-most generated column of the second,     *)
(* each as heights (h) and as terrain (feat) by row.                       *)
(***************************************************************************)
WildCoords == -2 .. 2
WildSeeds == { 0, 1, 977, 40000 }
SeamRows == 1 .. DUNGEON_HGT - 2

wild_heights(L, X, Y, seed_wild) ==
  terrain_plasma([ L EXCEPT !.p.wild_x = X, !.p.wild_y = Y,
                            !.run.seed_wild = seed_wild ])

wild_column(L, x) ==
  [ h |-> [ y \in SeamRows |-> L.feat[<< y, x >>] ],
    feat |-> [ y \in SeamRows |-> terrain_paint(L).feat[<< y, x >>] ] ]

InitSeam ==
  /\ cave_feat = [ c \in Cells |-> FEAT.NONE ]
  /\ cave_cover = init_cover_system
  /\ cov = [ calls |-> 0, last |-> NoCall ]
  /\ InitGenIdle
  /\ m_list = << >>
  /\ pat = [ calls |-> 0 ]
  /\ pursuit = [ pursuit_r_idx |-> 0, pursuit_hp |-> 0, pursuit_maxhp |-> 0 ]
  /\ rle = [ buf_pos |-> 0 ]
  /\ InitProbeIdle
  /\ \E X \in WildCoords, Y \in WildCoords, seed_wild \in WildSeeds :
       wild = [ pc |-> "ready", wild_x |-> X, wild_y |-> Y,
                seed_wild |-> seed_wild ]

TerrainGenPair ==
  /\ wild.pc = "ready"
  /\ \E A \in { wild_heights(Blank(LevelNow), wild.wild_x, wild.wild_y,
                             wild.seed_wild) },
        B \in { wild_heights(Blank(LevelNow), wild.wild_x + 1, wild.wild_y,
                             wild.seed_wild) } :
       wild' = [ pc |-> "done", wild_x |-> wild.wild_x,
                 wild_y |-> wild.wild_y, seed_wild |-> wild.seed_wild,
                 west |-> wild_column(A, DUNGEON_WID - 2),
                 east |-> wild_column(B, 1) ]
  /\ UNCHANGED << cave_feat, cave_info, cave_cover, cov, genVars, m_list,
                  pat, pursuit, rle, probeVars >>

NextSeam == TerrainGenPair

SpecSeam == InitSeam /\ [][NextSeam]_vars

(***************************************************************************)
(* Properties of the wilderness seam.                                      *)
(***************************************************************************)

(* C20: for the tiles (wild_x, wild_y) and (wild_x + 1, wild_y) under one  *)
(* wilderness seed the terrain along the shared edge agrees grid by grid,  *)
(* both corners included: the right-most generated column of the first     *)
(* tile equals the left-most generated column of the second.               *)
SeamColumnsAgree ==
  wild.pc = "done" => wild.west.feat = wild.east.feat

(***************************************************************************)
(* The tunnel pass of cave_gen on a level of three plain rooms in granite. *)
(* tun keeps a record of the pass: the outer-wall grids pierced, the       *)
(* grids put on the door list, the grids the walkers stood on with the     *)
(* feature found there, and how each winding walk ended.                   *)
(***************************************************************************)
TunnelRooms == << << 4, 4 >>, << 7, 10 >>, << 4, 16 >> >>
TunnelSeeds == 1 .. 100

SeqRange(q) == { q[i] : i \in 1 .. Len(q) }

InRoom(c, k) ==
  /\ Abs(c[1] - TunnelRooms[k][1]) <= RoomRad + 1
  /\ Abs(c[2] - TunnelRooms[k][2]) <= RoomRad + 1

InsideRoom(c, k) ==
  /\ Abs(c[1] - TunnelRooms[k][1]) <= RoomRad
  /\ Abs(c[2] - TunnelRooms[k][2]) <= RoomRad

TunnelFeat ==
  [ c \in Cells |->
      IF c \in Ring THEN FEAT.PERM_SOLID
      ELSE IF \E k \in 1 .. Len(TunnelRooms) : InsideRoom(c, k)
      THEN FEAT.FLOOR
      ELSE IF \E k \in 1 .. Len(TunnelRooms) : InRoom(c, k)
      THEN FEAT.WALL_OUTER
      ELSE FEAT.WALL_EXTRA ]

TunnelInfo ==
  [ c \in Cells |->
      IF \E k \in 1 .. Len(TunnelRooms) : InRoom(c, k)
      THEN { "ROOM" } ELSE {} ]

InitTunnel ==
  /\ cave_feat = TunnelFeat
  /\ cave_info = TunnelInfo
  /\ cave_cover = init_cover_system
  /\ cov = [ calls |-> 0, last |-> NoCall ]
  /\ p_ptr = NoPlayer
  /\ \E seed \in TunnelSeeds :
       rng = [ Rand_quick |-> FALSE, Rand_value |-> 0, Rand_state |-> seed ]
  /\ gen = NoGen
  /\ dun = [ NoDun EXCEPT !.cent = TunnelRooms ]
  /\ prev = << >>
  /\ m_list = << >>
  /\ pat = [ calls |-> 0 ]
  /\ pursuit = [ pursuit_r_idx |-> 0, pursuit_hp |-> 0, pursuit_maxhp |-> 0 ]
  /\ rle = [ buf_pos |-> 0 ]
  /\ wild = [ pc |-> "idle" ]
  /\ sect = [ pc |-> "idle" ]
  /\ loops = [ pc |-> "idle" ]
  /\ tun = [ pc |-> "connect", i |-> 0,
             y |-> TunnelRooms[Len(TunnelRooms)][1],
             x |-> TunnelRooms[Len(TunnelRooms)][2],
             pierced |-> {}, enq |-> {}, stood |-> {},
             wind |-> {} ]

(* What a tunnel call toward (row2, col2) adds to the record.  o is the    *)
(* outcome of straight_call or winding_call, << >> when no call was made.  *)
TunnelSeen(o, row2, col2) ==
  IF o = << >> THEN tun
  ELSE
    LET W == o[1].W
        T == o[1].T
        wall == IF T # << >> THEN SeqRange(T[1].wall)
                ELSE SeqRange(W[1].wall)
        lists == (IF W # << >> THEN SeqRange(W[1].door) ELSE {})
                   \cup (IF T # << >> THEN SeqRange(T[1].door) ELSE {})
        walked == (IF W # << >> THEN W[1].stood ELSE {})
                    \cup (IF T # << >> THEN T[1].stood ELSE {})
    IN  [ tun EXCEPT
            !.pierced = @ \cup wall,
            !.enq = @ \cup (lists \ SeqRange(dun.door)),
            !.stood = @ \cup walked,
            !.wind = @ \cup
                     (IF W = << >> THEN {}
                      ELSE { [ reached |-> W[1].y = row2 /\ W[1].x = col2,
                               loop |-> W[1].loop,
                               straight |-> T # << >> ] }) ]

TunnelDone(o, S) ==
  /\ cave_feat' = (IF o = << >> THEN cave_feat ELSE o[1].L.feat)
  /\ dun' = (IF o = << >> THEN dun ELSE o[1].L.dun)
  /\ tun' = S
  /\ UNCHANGED << cave_info, cave_cover, cov, p_ptr, gen, prev, m_list, pat,
                  pursuit, rle, wild, sect, loops >>

(* One pass of the loop that connects each room to the previous one. *)
TunnelConnect ==
  /\ tun.pc = "connect"
  /\ tun.i < Len(dun.cent)
  /\ \E L \in { LevelNow } :
       \E c \in { dun.cent[tun.i + 1] } :
         \E o \in { IF rand_int(L.rng, 1, 100) < 75
                    THEN winding_call(Drawn(L, 1), c[1], c[2], tun.y, tun.x)
                    ELSE straight_call(Drawn(L, 1), c[1], c[2],
                                       tun.y, tun.x) } :
           /\ rng' = o.L.rng
           /\ TunnelDone(<< o >>,
                         [ TunnelSeen(<< o >>, tun.y, tun.x) EXCEPT
                             !.i = IF tun.i + 1 = Len(dun.cent) THEN 0
                                   ELSE tun.i + 1,
                             !.pc = IF tun.i + 1 = Len(dun.cent) THEN "link"
                                    ELSE "connect",
                             !.y = c[1], !.x = c[2] ])

(* One pass of the loop that links some rooms to random other rooms. *)
TunnelLink ==
  /\ tun.pc = "link"
  /\ tun.i < Len(dun.cent)
  /\ \E L \in { LevelNow } :
       \E c \in { dun.cent[tun.i + 1] } :
         \E t \in { dun.cent[rand_int(L.rng, 2, Len(dun.cent)) + 1] } :
           \E o \in { IF rand_int(L.rng, 1, 100) < 40
                      THEN IF rand_int(L.rng, 2, Len(dun.cent)) # tun.i
                           THEN << winding_call(Drawn(L, 2), c[1], c[2],
                                                t[1], t[2]) >>
                           ELSE << >>
                      ELSE << >> } :
             /\ rng' = (IF o # << >> THEN o[1].L.rng
                        ELSE IF rand_int(L.rng, 1, 100) < 40
                        THEN Drawn(L, 2).rng ELSE Drawn(L, 1).rng)
             /\ TunnelDone(o,
                           [ TunnelSeen(o, t[1], t[2]) EXCEPT
                               !.i = IF tun.i + 1 = Len(dun.cent) THEN 0
                                     ELSE tun.i + 1,
                               !.pc = IF tun.i + 1 = Len(dun.cent)
                                      THEN "doors" ELSE "link" ])

(* The junction-door pass, over the door list as the tunnel calls left it. *)
TunnelDoors ==
  /\ tun.pc = "doors"
  /\ \E B \in { junction_doors(LevelNow, 1, Len(dun.door)) } :
       /\ cave_feat' = B.feat
       /\ rng' = B.rng
       /\ tun' = [ tun EXCEPT !.pc = "done" ]
       /\ UNCHANGED << cave_info, cave_cover, cov, p_ptr, gen, dun, prev,
                       m_list, pat, pursuit, rle, wild, sect, loops >>

NextTunnel == TunnelConnect \/ TunnelLink \/ TunnelDoors

SpecTunnel == InitTunnel /\ [][NextTunnel]_vars

(***************************************************************************)
(* Properties of the tunnel pass.                                          *)
(***************************************************************************)
Adjacent(a, b) ==
  a # b /\ Abs(a[1] - b[1]) <= 1 /\ Abs(a[2] - b[2]) <= 1

(* C21: no two outer-wall grids pierced during the tunnel pass are next    *)
(* to each other (eight neighbours), whichever tunneler pierced them.      *)
PiercingsApart ==
  \A a \in tun.pierced : \A b \in tun.pierced : ~Adjacent(a, b)

(* C22: neither tunneler moves its current position onto a grid that is    *)
(* PERM_OUTER, PERM_SOLID or WALL_SOLID when it is looked at.              *)
WalkersKeepOffSolid ==
  \A s \in tun.stood : s[2] \notin TunnelAvoids

(* C23: build_tunnel_winding calls build_tunnel exactly when its walk did  *)
(* not reach the target; a walk that reached it, on its last permitted     *)
(* iteration too, does not call build_tunnel.                              *)
WindingFallsBackOnlyOnFailure ==
  \A w \in tun.wind : w.straight <=> ~w.reached

(* C24: when the junction-door pass runs the door list holds every grid    *)
(* any tunnel call of the level put on it.                                 *)
DoorListKeepsEveryJunction ==
  tun.pc = "doors" /\ Cardinality(tun.enq) <= DOOR_MAX
  => tun.enq \subseteq SeqRange(dun.door)

(***************************************************************************)
(* generate.c: the cavern sector and ensure_connectivity.                  *)
(***************************************************************************)

(* The rectangle a sector builder works on for the square of blocks at     *)
(* (y0, x0): << y1, x1, y2, x2 >>, both ends included.                     *)
sector_rect(y0, x0) ==
  << y0 * BLOCK_HGT, x0 * BLOCK_WID,
     IF (y0 + 2) * BLOCK_HGT >= DUNGEON_HGT THEN DUNGEON_HGT - 1
     ELSE (y0 + 2) * BLOCK_HGT,
     IF (x0 + 2) * BLOCK_WID >= DUNGEON_WID THEN DUNGEON_WID - 1
     ELSE (x0 + 2) * BLOCK_WID >>

build_sector_cavern(L, y0, x0) ==
  Only({ Only({
    [ L EXCEPT
        !.rng = P.r,
        !.feat = [ c \in Cells |->
                     IF c \in Rect(R[1], R[3], R[2], R[4])
                     THEN IF P.feat[c] > 50 THEN FEAT.FLOOR
                          ELSE FEAT.WALL_INNER
                     ELSE P.feat[c] ],
        !.info = [ c \in Cells |->
                     IF c \in Rect(R[1], R[3], R[2], R[4]) /\ P.feat[c] > 50
                     THEN @[c] \cup { "ROOM" } ELSE @[c] ] ]
    : P \in { plasma_recursive(
                [ L.feat EXCEPT
                    ![<< R[1], R[2] >>] = rand_int(L.rng, 1, 100),
                    ![<< R[1], R[4] >>] = rand_int(L.rng, 2, 100),
                    ![<< R[3], R[2] >>] = rand_int(L.rng, 3, 100),
                    ![<< R[3], R[4] >>] = rand_int(L.rng, 4, 100) ],
                RandSkip(L.rng, 4), R[2], R[1], R[4], R[3], 100, 1) } })
    : R \in { sector_rect(y0, x0) } })

(* The blocks of the room map cave_gen marks for a sector at (y0, x0). *)
sector_blocks(y0, x0) ==
  { b \in (y0 .. y0 + 1) \X (x0 .. x0 + 1) :
      b[1] < MAX_ROOMS_ROW /\ b[2] < MAX_ROOMS_COL }

(* The cavern branch of cave_gen's sector loop. *)
cavern_sector(L, y0, x0) ==
  [ build_sector_cavern(L, y0, x0) EXCEPT
      !.dun.room_map = @ \cup sector_blocks(y0, x0),
      !.dun.cent = IF Len(@) < CENT_MAX
                   THEN Append(@, << y0 * BLOCK_HGT + BLOCK_HGT,
                                     x0 * BLOCK_WID + BLOCK_WID >>)
                   ELSE @ ]

(* ensure_connectivity.  Grids are numbered inside the rectangle as the    *)
(* code's comp[][] is, from (0, 0).                                        *)
LOOP_SAFE_MAX == 100

RECURSIVE conn_flood(_, _)
conn_flood(F, S) ==
  Only({ IF N = S THEN S ELSE conn_flood(F, N) :
         N \in { S \cup { c \in F : \E d \in S :
                            Abs(d[1] - c[1]) + Abs(d[2] - c[2]) = 1 } } })

RowMajorLess(a, b) == a[1] < b[1] \/ (a[1] = b[1] /\ a[2] < b[2])

First(S) == CHOOSE a \in S : \A b \in S : a = b \/ RowMajorLess(a, b)

(* The components in the order the scan numbers them. *)
RECURSIVE conn_components(_)
conn_components(F) ==
  IF F = {} THEN << >>
  ELSE Only({ << C >> \o conn_components(F \ C) :
              C \in { conn_flood(F, { First(F) }) } })

(* The pair the search keeps: the first, in scan order, among the pairs    *)
(* of least squared distance.                                              *)
conn_pair(A, B) ==
  LET d(p) == (p[1][1] - p[2][1]) * (p[1][1] - p[2][1])
              + (p[1][2] - p[2][2]) * (p[1][2] - p[2][2])
      pairs == A \X B
      best == { p \in pairs : \A q \in pairs : d(p) <= d(q) }
  IN  CHOOSE p \in best :
        \A q \in best :
          \/ p = q
          \/ RowMajorLess(p[1], q[1])
          \/ (p[1] = q[1] /\ RowMajorLess(p[2], q[2]))

(* The grids the bridge from a to b turns into floor. *)
RECURSIVE conn_bridge(_, _)
conn_bridge(a, b) ==
  IF a = b THEN {}
  ELSE Only({ { n } \cup conn_bridge(n, b) :
              n \in { << a[1] + Sign(b[1] - a[1]),
                         a[2] + Sign(b[2] - a[2]) >> } })

(* One pass of the loop.  S.floor is the set of floor grids of the         *)
(* rectangle, S.bridge the grids the bridges have written, S.counts the    *)
(* comp_count of each pass so far.                                         *)
conn_step(S) ==
  IF S.over \/ S.loop_safe >= LOOP_SAFE_MAX THEN [ S EXCEPT !.over = TRUE ]
  ELSE
    Only({ IF Len(K) <= 1
           THEN [ S EXCEPT !.over = TRUE, !.loop_safe = @ + 1,
                           !.counts = Append(@, Len(K)) ]
           ELSE Only({ [ S EXCEPT !.loop_safe = @ + 1,
                                  !.counts = Append(@, Len(K)),
                                  !.floor = @ \cup B,
                                  !.bridge = @ \cup B ]
                       : B \in { Only({ conn_bridge(p[1], p[2]) :
                                   p \in { conn_pair(K[1],
                                     UNION { K[i] : i \in 2 .. Len(K) }) }
                                 }) } })
           : K \in { conn_components(S.floor) } })

RECURSIVE conn_walk(_, _)
conn_walk(S, n) ==
  IF S.over THEN S
  ELSE IF n <= 1 THEN conn_step(S)
  ELSE Only({ conn_walk(v, n - (n \div 2)) :
              v \in { conn_walk(S, n \div 2) } })

conn_run(L, y1, x1, y2, x2) ==
  conn_walk([ floor |-> { c \in (0 .. y2 - y1) \X (0 .. x2 - x1) :
                            cave_floor_bold(L, y1 + c[1], x1 + c[2]) },
              bridge |-> {}, loop_safe |-> 0, counts |-> << >>,
              over |-> FALSE ],
            LOOP_SAFE_MAX + 1)

ensure_connectivity(L, y1, x1, y2, x2) ==
  Only({ [ L EXCEPT !.feat =
             [ c \in Cells |->
                 IF << c[1] - y1, c[2] - x1 >> \in S.bridge
                 THEN FEAT.FLOOR ELSE @[c] ] ]
         : S \in { conn_run(L, y1, x1, y2, x2) } })

(***************************************************************************)
(* A sector builder at work on a level of bare background, and             *)
(* ensure_connectivity on a rectangle of floor and granite.  sect keeps    *)
(* the arrays as they were before the call.                                *)
(***************************************************************************)
SectorSeeds == 1 .. 30
SectorSquaresAt == { << 0, 0 >>, << 0, 2 >>, << 0, 4 >>, << 0, 6 >> }
ConnRect == << 2, 2, 4, 4 >>

ConnGrid(F) ==
  [ c \in Cells |->
      IF c \in F THEN FEAT.FLOOR ELSE FEAT.WALL_EXTRA ]

InitSector ==
  /\ cave_cover = init_cover_system
  /\ cov = [ calls |-> 0, last |-> NoCall ]
  /\ InitGenIdle
  /\ m_list = << >>
  /\ pat = [ calls |-> 0 ]
  /\ pursuit = [ pursuit_r_idx |-> 0, pursuit_hp |-> 0, pursuit_maxhp |-> 0 ]
  /\ rle = [ buf_pos |-> 0 ]
  /\ wild = [ pc |-> "idle" ]
  /\ tun = [ pc |-> "idle" ]
  /\ loops = [ pc |-> "idle" ]
  /\ \/ /\ cave_feat = [ c \in Cells |-> FEAT.WALL_EXTRA ]
        /\ \E seed \in SectorSeeds, sq \in SectorSquaresAt :
             sect = [ pc |-> "cavern", y0 |-> sq[1], x0 |-> sq[2],
                      seed |-> seed ]
     \/ /\ cave_feat \in
             { ConnGrid(F) :
                 F \in SUBSET Rect(ConnRect[1], ConnRect[3],
                                   ConnRect[2], ConnRect[4]) }
        /\ sect = [ pc |-> "connect" ]

SectorDone(B, S) ==
  /\ cave_feat' = B.feat
  /\ cave_info' = B.info
  /\ dun' = B.dun
  /\ rng' = B.rng
  /\ sect' = [ S EXCEPT !.feat = cave_feat, !.info = cave_info ]
  /\ UNCHANGED << cave_cover, cov, p_ptr, gen, prev, m_list, pat,
                  pursuit, rle, wild, tun, loops >>

(* cave_gen builds the cavern sector of the square at (y0, x0). *)
BuildSectorCavern ==
  /\ sect.pc = "cavern"
  /\ \E B \in { cavern_sector([ LevelNow EXCEPT !.rng.Rand_state = sect.seed ],
                              sect.y0, sect.x0) } :
       SectorDone(B, [ pc |-> "built", y0 |-> sect.y0, x0 |-> sect.x0,
                       seed |-> sect.seed, feat |-> << >>, info |-> << >> ])

EnsureConnectivity ==
  /\ sect.pc = "connect"
  /\ \E S \in { conn_run(LevelNow, ConnRect[1], ConnRect[2],
                         ConnRect[3], ConnRect[4]) } :
       SectorDone(ensure_connectivity(LevelNow, ConnRect[1], ConnRect[2],
                                      ConnRect[3], ConnRect[4]),
                  [ pc |-> "connected", counts |-> S.counts,
                    feat |-> << >>, info |-> << >> ])

NextSector == BuildSectorCavern \/ EnsureConnectivity

SpecSector == InitSector /\ [][NextSector]_vars

(***************************************************************************)
(* Properties of the sectors.                                              *)
(***************************************************************************)

(* The grids of the 2x2 square of blocks at (y0, x0). *)
SectorSquare(y0, x0) ==
  { c \in Cells : /\ c[1] >= y0 * BLOCK_HGT
                  /\ c[1] <= (y0 + 2) * BLOCK_HGT - 1
                  /\ c[2] >= x0 * BLOCK_WID
                  /\ c[2] <= (x0 + 2) * BLOCK_WID - 1 }

(* C25: the sector builder called for the square of blocks at (y0, x0)     *)
(* changes no grid outside that square, rows y0 * BLOCK_HGT up to          *)
(* (y0 + 2) * BLOCK_HGT - 1 and columns likewise.                          *)
SectorStaysInSquare ==
  sect.pc = "built"
  => \A c \in Cells \ SectorSquare(sect.y0, sect.x0) :
       cave_feat[c] = sect.feat[c] /\ cave_info[c] = sect.info[c]

(* The floor grids of the rectangle ensure_connectivity was given. *)
ConnFloor ==
  { c \in Rect(ConnRect[1], ConnRect[3], ConnRect[2], ConnRect[4]) :
      cave_feat[c] < FEAT.DOOR_HEAD }

(* C26: in ensure_connectivity the number of 4-connected floor components  *)
(* goes down with every pass that builds a bridge, and when it returns     *)
(* the floor of the rectangle is one 4-connected component.                *)
ConnectivityEnsured ==
  sect.pc = "connected"
  => /\ \A i \in 1 .. Len(sect.counts) - 1 :
          sect.counts[i + 1] < sect.counts[i]
     /\ ConnFloor # {} => conn_flood(ConnFloor, { First(ConnFloor) }) = ConnFloor

(***************************************************************************)
(* generate.c: the search loops of alloc_stairs, alloc_object,             *)
(* new_player_spot and build_tunnel, one pass of a loop per step.  The     *)
(* grid a pass draws is any grid of LoopDraws, the direction any the       *)
(* source can draw; loops holds the locals of the function at work.  The   *)
(* level is granite with floor on some grids of LoopFloor, the first two   *)
(* of them in a room.                                                      *)
(***************************************************************************)
LoopFloor == { << 4, 4 >>, << 4, 5 >>, << 7, 10 >> }
LoopRoom == { << 4, 4 >>, << 4, 5 >> }
LoopDraws == LoopFloor \cup { << 0, 0 >>, << 5, 5 >> }
LoopNums == 1 .. 2
LoopWalkers == { << 1, 5 >>, << 4, 1 >>, << 6, 6 >> }
LoopTargets == { << 7, 10 >>, << 1, 5 >> }

LoopDirs == { << ddy_ddd[k], ddx_ddd[k] >> : k \in 1 .. 4 }

InitLoops ==
  /\ cave_feat \in
       { [ c \in Cells |-> IF c \in F THEN FEAT.FLOOR ELSE FEAT.WALL_EXTRA ] :
           F \in SUBSET LoopFloor }
  /\ cave_info = [ c \in Cells |-> IF c \in LoopRoom THEN { "ROOM" } ELSE {} ]
  /\ cave_cover = init_cover_system
  /\ cov = [ calls |-> 0, last |-> NoCall ]
  /\ p_ptr = NoPlayer
  /\ rng = [ Rand_quick |-> FALSE, Rand_value |-> 0, Rand_state |-> 1 ]
  /\ gen = NoGen
  /\ dun = NoDun
  /\ prev = << >>
  /\ m_list = << >>
  /\ pat = [ calls |-> 0 ]
  /\ pursuit = [ pursuit_r_idx |-> 0, pursuit_hp |-> 0, pursuit_maxhp |-> 0 ]
  /\ rle = [ buf_pos |-> 0 ]
  /\ wild = [ pc |-> "idle" ]
  /\ tun = [ pc |-> "idle" ]
  /\ sect = [ pc |-> "idle" ]
  /\ \/ \E num \in LoopNums,
           a \in { << 3, FALSE >>, << 0, FALSE >>, << 3, TRUE >> } :
          loops = [ pc |-> "stairs", feat |-> FEAT.MORE, num |-> num,
                    walls |-> a[1], force_room |-> a[2], i |-> 0, j |-> 0,
                    y |-> 0, x |-> 0 ]
     \/ \E num \in LoopNums, set \in { "CORR", "ROOM", "BOTH" } :
          loops = [ pc |-> "object", set |-> set, num |-> num, k |-> 0,
                    y |-> 0, x |-> 0 ]
     \/ loops = [ pc |-> "spot", y |-> 0, x |-> 0 ]
     \/ \E w \in LoopWalkers, t \in LoopTargets, d \in LoopDirs :
          loops = [ pc |-> "bounds", row1 |-> w[1], col1 |-> w[2],
                    row2 |-> t[1], col2 |-> t[2],
                    row_dir |-> d[1], col_dir |-> d[2] ]

LoopStep(S) ==
  /\ loops' = S
  /\ UNCHANGED << cave_info, cave_cover, cov, rng, gen, dun, prev, m_list,
                  pat, pursuit, rle, wild, tun, sect >>

(* What alloc_stairs asks of the grid it drew. *)
stairs_fits(y, x) ==
  /\ cave_naked_bold(LevelNow, y, x)
  /\ loops.force_room => "ROOM" \in cave_info[<< y, x >>]
  /\ next_to_walls(cave_feat, y, x) >= loops.walls

(* alloc_stairs: a pass of the inner loop draws a grid that fits; the      *)
(* staircase is written, and the wall count is lowered on the way out.     *)
StairsPlace ==
  /\ loops.pc = "stairs" /\ loops.i < loops.num /\ loops.j < StairTries
  /\ \E c \in LoopDraws :
       /\ stairs_fits(c[1], c[2])
       /\ cave_feat' = [ cave_feat EXCEPT ![c] = stairs_feat(p_ptr, loops.feat) ]
       /\ LoopStep([ loops EXCEPT !.y = c[1], !.x = c[2], !.i = @ + 1,
                                  !.j = 0,
                                  !.walls = IF @ > 0 THEN @ - 1 ELSE @ ])
       /\ UNCHANGED p_ptr

(* alloc_stairs: the grid drawn does not fit. *)
StairsMiss ==
  /\ loops.pc = "stairs" /\ loops.i < loops.num /\ loops.j < StairTries
  /\ \E c \in LoopDraws :
       /\ ~stairs_fits(c[1], c[2])
       /\ LoopStep([ loops EXCEPT !.y = c[1], !.x = c[2], !.j = @ + 1 ])
       /\ UNCHANGED << cave_feat, p_ptr >>

(* alloc_stairs: the tries are used up; fewer walls are asked for and the  *)
(* inner loop starts again.                                                *)
StairsFewerWalls ==
  /\ loops.pc = "stairs" /\ loops.i < loops.num /\ loops.j >= StairTries
  /\ LoopStep([ loops EXCEPT !.j = 0,
                             !.walls = IF @ > 0 THEN @ - 1 ELSE @ ])
  /\ UNCHANGED << cave_feat, p_ptr >>

StairsReturn ==
  /\ loops.pc = "stairs" /\ loops.i >= loops.num
  /\ LoopStep([ pc |-> "returned" ])
  /\ UNCHANGED << cave_feat, p_ptr >>

(* alloc_object: the grid drawn is legal and the rubble is placed. *)
ObjectPlace ==
  /\ loops.pc = "object" /\ loops.k < loops.num
  /\ \E c \in LoopDraws :
       /\ place_fits(LevelNow, cave_info, p_ptr, loops.set, c[1], c[2])
       /\ cave_feat' = [ cave_feat EXCEPT ![c] = FEAT.RUBBLE ]
       /\ LoopStep([ loops EXCEPT !.y = c[1], !.x = c[2], !.k = @ + 1 ])
       /\ UNCHANGED p_ptr

(* alloc_object: the grid drawn is not legal; the loop draws again. *)
ObjectMiss ==
  /\ loops.pc = "object" /\ loops.k < loops.num
  /\ \E c \in LoopDraws :
       /\ ~place_fits(LevelNow, cave_info, p_ptr, loops.set, c[1], c[2])
       /\ LoopStep([ loops EXCEPT !.y = c[1], !.x = c[2] ])
       /\ UNCHANGED << cave_feat, p_ptr >>

ObjectReturn ==
  /\ loops.pc = "object" /\ loops.k >= loops.num
  /\ LoopStep([ pc |-> "returned" ])
  /\ UNCHANGED << cave_feat, p_ptr >>

(* new_player_spot with no staircase to start on: the grid drawn is a      *)
(* naked floor grid outside the vaults, and the player is placed.          *)
SpotPlace ==
  /\ loops.pc = "spot"
  /\ \E c \in LoopDraws :
       /\ in_bounds_fully(c[1], c[2])
       /\ cave_naked_bold(LevelNow, c[1], c[2])
       /\ "ICKY" \notin cave_info[c]
       /\ p_ptr' = [ p_ptr EXCEPT !.py = c[1], !.px = c[2], !.placed = TRUE ]
       /\ LoopStep([ pc |-> "returned" ])
       /\ UNCHANGED cave_feat

SpotMiss ==
  /\ loops.pc = "spot"
  /\ \E c \in LoopDraws :
       /\ in_bounds_fully(c[1], c[2])
       /\ ~(cave_naked_bold(LevelNow, c[1], c[2])
              /\ "ICKY" \notin cave_info[c])
       /\ LoopStep([ loops EXCEPT !.y = c[1], !.x = c[2] ])
       /\ UNCHANGED << cave_feat, p_ptr >>

(* The directions one pass of build_tunnel's search can come to: the       *)
(* correct one, or any of the four when the random roll says so.           *)
bounds_dirs(row1, col1, row2, col2) ==
  LoopDirs \cup
    { << d.rdir, d.cdir >> :
        d \in { correct_dir([ Rand_quick |-> FALSE, Rand_value |-> 0,
                              Rand_state |-> s ],
                            row1, col1, row2, col2) : s \in 1 .. 8 } }

BoundsOutside ==
  ~in_bounds_fully(loops.row1 + loops.row_dir, loops.col1 + loops.col_dir)

(* build_tunnel: the next grid is off the map and a direction is drawn     *)
(* again; BoundsInside is the draw that leads back onto the map.           *)
BoundsDraw ==
  /\ loops.pc = "bounds" /\ BoundsOutside
  /\ \E d \in bounds_dirs(loops.row1, loops.col1, loops.row2, loops.col2) :
       LoopStep([ loops EXCEPT !.row_dir = d[1], !.col_dir = d[2] ])
  /\ UNCHANGED << cave_feat, p_ptr >>

BoundsInside ==
  /\ BoundsDraw
  /\ in_bounds_fully(loops'.row1 + loops'.row_dir,
                     loops'.col1 + loops'.col_dir)

BoundsReturn ==
  /\ loops.pc = "bounds" /\ ~BoundsOutside
  /\ LoopStep([ pc |-> "returned" ])
  /\ UNCHANGED << cave_feat, p_ptr >>

NextLoops ==
  \/ StairsPlace \/ StairsMiss \/ StairsFewerWalls \/ StairsReturn
  \/ ObjectPlace \/ ObjectMiss \/ ObjectReturn
  \/ SpotPlace \/ SpotMiss
  \/ BoundsDraw \/ BoundsReturn

(* A loop that is running makes its next pass, and a draw that can come    *)
(* out right does so sooner or later.                                      *)
SpecLoops ==
  /\ InitLoops
  /\ [][NextLoops]_vars
  /\ WF_vars(NextLoops)
  /\ SF_vars(StairsPlace)
  /\ SF_vars(ObjectPlace)
  /\ SF_vars(SpotPlace)
  /\ SF_vars(BoundsInside)

(* C27: every search loop of the generator comes to an end on every grid:  *)
(* alloc_stairs, alloc_object, new_player_spot and the search of           *)
(* build_tunnel for a next grid on the map all return.                     *)
SearchLoopsReturn == <>(loops.pc = "returned")

(***************************************************************************)
(* A BACKFORTH guard walking its route unseen, alerted now and then: the   *)
(* hall as place_patrol leaves it, every tick one call of                  *)
(* execute_patrol_behavior with the player out of sight.  pat.read is the  *)
(* index the call used on waypoints[], if it read the array.  An index     *)
(* past the array reads whatever lies there: the waypoint read is then any *)
(* of StrayWaypoints, and what the call writes through it is lost.         *)
(***************************************************************************)
BackForthSeeds == 1 .. 12
BackTicks == 60
MaxAlerts == 1

(* The index execute_patrol_behavior uses on waypoints[] in this state. *)
waypoint_read(guard) ==
  IF \/ guard.guard_state = "PATROL" /\ guard.num_waypoints # 0
     \/ /\ guard.guard_state = "RETURN"
        /\ guard.patrol_type # "STATIONARY"
        /\ guard.num_waypoints > 0
  THEN << guard.current_waypoint >>
  ELSE << >>

StrayWaypoints(m_ptr) ==
  { NoWaypoint,
    [ y |-> m_ptr.fy, x |-> m_ptr.fx, wait_turns |-> 1 ],
    [ y |-> m_ptr.fy, x |-> m_ptr.fx, wait_turns |-> 9 ] }

(* The world as the call sees it when index i holds wp. *)
StrayWorld(W, m_idx, i, wp) ==
  SetGuard(W, m_idx,
    [ Guard(W, m_idx) EXCEPT
        !.waypoints = [ k \in DOMAIN @ \cup { i } |->
                          IF k = i THEN wp ELSE @[k] ] ])

StrayDropped(W, m_idx) ==
  SetGuard(W, m_idx,
    [ Guard(W, m_idx) EXCEPT
        !.waypoints = [ k \in 0 .. PATROL_MAX_WAYPOINTS - 1 |-> @[k] ] ])

InitBackForth ==
  /\ InitPatrolWorld
  /\ cave_feat \in { PatrolLayout(block) : block \in BOOLEAN }
  /\ \E seed \in BackForthSeeds :
       \E W \in { setup_monster_patrol(
                    [ feat |-> cave_feat, cover |-> cave_cover,
                      m_list |-> << Monster(1, 6, 10, 8, 10) >>,
                      py |-> p_ptr.py, px |-> p_ptr.px,
                      rng |-> [ Rand_quick |-> FALSE, Rand_value |-> 0,
                                Rand_state |-> seed ] ],
                    1, "BACKFORTH") } :
         /\ m_list = W.m_list
         /\ rng = W.rng
         /\ pat = [ calls |-> 0, last |-> NoPatCall, alerts |-> 0,
                    read |-> << >> ]

BackForthReturned(W, read, alerts) ==
  /\ m_list' = W.m_list
  /\ p_ptr' = [ p_ptr EXCEPT !.py = W.py, !.px = W.px ]
  /\ rng' = W.rng
  /\ pat' = [ pat EXCEPT !.calls = @ + 1, !.read = read,
                         !.alerts = @ + alerts ]
  /\ UNCHANGED << cave_feat, cave_info, cave_cover, cov, gen, dun, prev,
                  pursuit, rle, wild, probeVars >>

TickBackForth ==
  /\ pat.calls < BackTicks
  /\ \E read \in { waypoint_read(Guard(World, 1)) } :
       IF read = << >> \/ read[1] \in 0 .. PATROL_MAX_WAYPOINTS - 1
       THEN BackForthReturned(execute_patrol_behavior(World, 1, FALSE).W,
                              read, 0)
       ELSE \E wp \in StrayWaypoints(m_list[1]) :
              BackForthReturned(
                StrayDropped(
                  execute_patrol_behavior(
                    StrayWorld(World, 1, read[1], wp), 1, FALSE).W, 1),
                read, 0)

(* Combat near the guard: alert_nearby_guards is called for a grid. *)
AlertBackForth ==
  /\ pat.calls < BackTicks
  /\ pat.alerts < MaxAlerts
  /\ \E c \in AlertPoints :
       BackForthReturned(
         alert_nearby_guards(World, c[1], c[2], GUARD_ALERT_RADIUS),
         << >>, 1)

NextBackForth == TickBackForth \/ AlertBackForth

SpecBackForth == InitBackForth /\ [][NextBackForth]_vars

(* C28: whenever execute_patrol_behavior reads                             *)
(* waypoints[current_waypoint] of a guard with waypoints, the index is one *)
(* of 0 .. num_waypoints - 1, for a BACKFORTH guard on its way back too,   *)
(* in PATROL and in RETURN.                                                *)
WaypointIndexInRange ==
  \A i \in DOMAIN pat.read :
    pat.read[i] \in 0 .. m_list[1].guard[1].num_waypoints - 1

(* C29: after any sequence of create_cover_at, damage_cover and            *)
(* destroy_cover calls every grid that holds a cover record has the        *)
(* feature kept in the record's terrain_feat; no FLOOR grid holds a        *)
(* record, also where a barrel placed with a record has exploded.          *)
CoverRecordMatchesFeature ==
  \A c \in Cells :
    cave_cover[c] # << >>
      => /\ cave_feat[c] = cave_cover[c][1].terrain_feat
         /\ cave_feat[c] # FEAT.FLOOR

(***************************************************************************)
(* A stationary guard and a guard at its post in the hall, the player in   *)
(* sight of the second only.  The second guard spots the player and alerts the guards   *)
(* around it; the first, which never has the player in its line of sight,  *)
(* is ticked turn after turn.                                              *)
(***************************************************************************)
AlertPosts == { << 6, 11 >>, << 6, 10 >>, << 5, 11 >>, << 7, 11 >>,
                << 4, 12 >>, << 8, 12 >> }
AlertSpotters == { << 6, 13 >>, << 6, 9 >>, << 4, 11 >>, << 8, 13 >>,
                   << 5, 13 >> }

InitAlert ==
  /\ InitPatrolWorld
  /\ cave_feat \in { PatrolLayout(block) : block \in BOOLEAN }
  /\ rng = [ Rand_quick |-> FALSE, Rand_value |-> 0, Rand_state |-> 1 ]
  /\ pat = [ calls |-> 0, last |-> NoPatCall ]
  /\ \E g \in AlertPosts, s \in AlertSpotters :
       /\ g # s
       /\ m_list =
            setup_guard_post(
              setup_monster_patrol(
                [ feat |-> cave_feat, cover |-> cave_cover,
                  m_list |-> << Monster(1, g[1], g[2], 8, 10),
                                Monster(2, s[1], s[2], 5, 5) >>,
                  py |-> p_ptr.py, px |-> p_ptr.px, rng |-> rng ],
                1, "STATIONARY"),
              2, "ROOM", s[1], s[2]).m_list

AlertReturned(W) ==
  /\ m_list' = W.m_list
  /\ p_ptr' = [ p_ptr EXCEPT !.py = W.py, !.px = W.px ]
  /\ rng' = W.rng
  /\ UNCHANGED << cave_feat, cave_info, cave_cover, cov, gen, dun, prev,
                  pat, pursuit, rle, wild, probeVars >>

(* process_monster ticks the second guard, the player in its sight. *)
TickSpotter ==
  /\ m_list[2].r_idx # 0
  /\ AlertReturned(execute_patrol_behavior(World, 2, TRUE).W)

(* process_monster ticks the first guard, the player out of its sight. *)
TickGuard ==
  /\ m_list[1].r_idx # 0
  /\ AlertReturned(execute_patrol_behavior(World, 1, FALSE).W)

NextAlert == TickSpotter \/ TickGuard

(* The game ticks every monster every turn. *)
SpecAlert ==
  /\ InitAlert
  /\ [][NextAlert]_vars
  /\ WF_vars(TickSpotter)
  /\ WF_vars(TickGuard)

(* C30: a guard in ALERT that is ticked again and again leaves ALERT       *)
(* sooner or later, for RETURN or CHASE, though the player never comes     *)
(* into its sight and whatever walls stand between it and the grid it was  *)
(* alerted to.                                                             *)
AlertAlwaysEnds ==
  (m_list[1].guard[1].guard_state = "ALERT")
    ~> (m_list[1].guard[1].guard_state \in { "RETURN", "CHASE" })

====
